---- MODULE Spec2Model ----
(***************************************************************************)
(* Bot Listener System: the connection registry (ConnectionService), the   *)
(* stream context store (StreamContextService) and the per-connection      *)
(* message loops of bot_system/app.py, as one state machine.               *)
(***************************************************************************)
EXTENDS Integers, Sequences, FiniteSets, TLC

(***************************************************************************)
(* Bounds of the model.                                                    *)
(***************************************************************************)
\* add_message calls explored per stream between two resets
MaxMessages == 12
\* largest value of the clock
MaxTime == 2
\* largest viewer count passed to update_viewers in the store runs
MaxViewerArg == 1
\* a configured max_message_history smaller than the default
SmallHistory == 2
\* texts each broadcaster client sends
MaxSends == 1
\* texts the broadcaster client sends in the runs with a stalled viewer
MaxFairSends == 2
\* messages each viewer client sends
MaxViewerMsgs == 1
\* viewers whose socket stalls
MaxStalled == 1
\* texts the broadcaster client sends in the runs of the router alone
MaxRouterSends == 5
\* texts the broadcaster client sends in the runs of the fan-out without failures
MaxOrderSends == 2
\* the texts a viewer sends, at most, in the runs about reactions
MaxReactMsgs == 2
\* the messages added to one stream, at most, in the runs about two streams
MaxIsoMessages == 1

(***************************************************************************)
(* Program constants.                                                      *)
(***************************************************************************)
\* default of max_message_history
DefaultMaxMessageHistory == 10
\* the literal history length kept by add_message
HistoryKeep == 10
\* a title word becomes a topic when it is longer than this
MinTopicLen == 2
\* a tie resets the mood when message_count is a multiple of this
MoodResetEvery == 5

\* StreamContextManager.add_message keeps this many messages
ManagerHistoryKeep == 10

\* StreamContextManager.update_title takes the words longer than this as topics
ManagerMinTopicLen == 2

\* StreamContextManager.analyze_mood goes back to neutral when message_count is a multiple of this
ManagerMoodResetEvery == 5

(***************************************************************************)
(* Strings.  TLC treats a string as atomic, so the characters of every     *)
(* string the model uses are tabulated here; a character outside ASCII is  *)
(* written as its code point.                                              *)
(***************************************************************************)
Chars(s) ==
    CASE s = "Test Stream" -> <<"T", "e", "s", "t", " ", "S", "t", "r", "e", "a", "m">>
      [] s = "Hello World Stream" -> <<"H", "e", "l", "l", "o", " ", "W", "o", "r", "l", "d", " ", "S", "t", "r", "e", "a", "m">>
      [] s = "New Episode" -> <<"N", "e", "w", " ", "E", "p", "i", "s", "o", "d", "e">>
      [] s = "Go AI hello" -> <<"G", "o", " ", "A", "I", " ", "h", "e", "l", "l", "o">>
      [] s = "Hello everyone" -> <<"H", "e", "l", "l", "o", " ", "e", "v", "e", "r", "y", "o", "n", "e">>
      [] s = "this is amazing" -> <<"t", "h", "i", "s", " ", "i", "s", " ", "a", "m", "a", "z", "i", "n", "g">>
      [] s = "it was sad and hard" -> <<"i", "t", " ", "w", "a", "s", " ", "s", "a", "d", " ", "a", "n", "d", " ", "h", "a", "r", "d">>
      [] s = "so happy" -> <<"s", "o", " ", "h", "a", "p", "p", "y">>
      [] s = "happy but sad" -> <<"h", "a", "p", "p", "y", " ", "b", "u", "t", " ", "s", "a", "d">>
      [] s = "AMAZING but sad and hard" -> <<"A", "M", "A", "Z", "I", "N", "G", " ", "b", "u", "t", " ", "s", "a", "d", " ", "a", "n", "d", " ", "h", "a", "r", "d">>
      [] s = "{\"command\": \"get_viewers\"}" -> <<"{", "\"", "c", "o", "m", "m", "a", "n", "d", "\"", ":", " ", "\"", "g", "e", "t", "_", "v", "i", "e", "w", "e", "r", "s", "\"", "}">>
      [] s = "hello" -> <<"h", "e", "l", "l", "o">>
      [] s = "world" -> <<"w", "o", "r", "l", "d">>
      [] s = "stream" -> <<"s", "t", "r", "e", "a", "m">>
      [] s = "new" -> <<"n", "e", "w">>
      [] s = "episode" -> <<"e", "p", "i", "s", "o", "d", "e">>
      [] s = "msg01" -> <<"m", "s", "g", "0", "1">>
      [] s = "msg02" -> <<"m", "s", "g", "0", "2">>
      [] s = "msg03" -> <<"m", "s", "g", "0", "3">>
      [] s = "msg04" -> <<"m", "s", "g", "0", "4">>
      [] s = "msg05" -> <<"m", "s", "g", "0", "5">>
      [] s = "msg06" -> <<"m", "s", "g", "0", "6">>
      [] s = "msg07" -> <<"m", "s", "g", "0", "7">>
      [] s = "msg08" -> <<"m", "s", "g", "0", "8">>
      [] s = "msg09" -> <<"m", "s", "g", "0", "9">>
      [] s = "msg10" -> <<"m", "s", "g", "1", "0">>
      [] s = "msg11" -> <<"m", "s", "g", "1", "1">>
      [] s = "msg12" -> <<"m", "s", "g", "1", "2">>
      [] s = "msg13" -> <<"m", "s", "g", "1", "3">>
      [] s = "msg14" -> <<"m", "s", "g", "1", "4">>

Whitespace == {" ", "\t"}

UpperCase == <<"A","B","C","D","E","F","G","H","I","J","K","L","M",
               "N","O","P","Q","R","S","T","U","V","W","X","Y","Z">>

LowerCase == <<"a","b","c","d","e","f","g","h","i","j","k","l","m",
               "n","o","p","q","r","s","t","u","v","w","x","y","z">>

\* str.lower() on one character
LowerChar(c) ==
    IF \E i \in 1..Len(UpperCase) : UpperCase[i] = c
    THEN LowerCase[CHOOSE i \in 1..Len(UpperCase) : UpperCase[i] = c]
    ELSE c

\* str.lower()
Lower(cs) == [i \in 1..Len(cs) |-> LowerChar(cs[i])]

\* str.split(): the maximal runs of non-whitespace characters, in order
RECURSIVE SplitFrom(_, _, _)
SplitFrom(cs, i, cur) ==
    IF i > Len(cs)
    THEN IF cur = <<>> THEN <<>> ELSE <<cur>>
    ELSE IF cs[i] \in Whitespace
         THEN IF cur = <<>> THEN SplitFrom(cs, i + 1, <<>>)
                            ELSE <<cur>> \o SplitFrom(cs, i + 1, <<>>)
         ELSE SplitFrom(cs, i + 1, Append(cur, cs[i]))

Split(cs) == SplitFrom(cs, 1, <<>>)

\* needle in hay (substring test)
Contains(hay, needle) ==
    \E i \in 0..(Len(hay) - Len(needle)) :
        SubSeq(hay, i + 1, i + Len(needle)) = needle

(***************************************************************************)
(* Inputs.                                                                 *)
(***************************************************************************)
\* the stream id the store runs operate on; it is absent from the store at first
StoreIds == {"b1"}

Titles == {"Hello World Stream", "New Episode", "Go AI hello"}

\* the k-th content string added to a stream is MsgNames[k]: all distinct
MsgNames == <<"msg01", "msg02", "msg03", "msg04", "msg05", "msg06", "msg07",
              "msg08", "msg09", "msg10", "msg11", "msg12", "msg13", "msg14">>

\* texts given to analyze_mood
MoodContents == {"Hello everyone", "this is amazing", "it was sad and hard",
                 "so happy", "happy but sad", "AMAZING but sad and hard"}

\* the get_viewers command as BroadcasterClient._send_messages writes it: no content field
CommandOnlyJson == "{\"command\": \"get_viewers\"}"

\* every content string of the model
Contents == MoodContents \cup {MsgNames[i] : i \in 1..Len(MsgNames)} \cup {CommandOnlyJson}

Moods == {"neutral", "positive", "negative", "excited"}

\* the connections: one websocket per client, never reused
Broadcasters == {"b1", "b2"}

Viewers == {"v1", "v2"}

Conns == Broadcasters \cup Viewers

None == "<None>"

VARIABLES
    stream_contexts,      \* StreamContextService.stream_contexts: stream id -> context
    max_message_history,  \* StreamContextService.max_message_history
    now,                  \* the value time.time() returns
    added,                \* history variable: per stream id, the messages added since its creation or last reset
    called,               \* history variable: the last operation called on the store directly, and on what
    manager_contexts,     \* StreamContextManager.stream_contexts of src/StreamContextManager.py: stream id -> context
    broadcaster,          \* ConnectionService.broadcaster: a connection or None
    bot_viewers,          \* ConnectionService.bot_viewers: a list of connections
    bot_info,             \* ConnectionService.bot_info: connection -> dict
    pc,                   \* where the endpoint coroutine of each connection stands
    inbox,                \* per broadcaster: the texts its client has sent that receive_text has not returned yet
    nrecv,                \* per connection: how many texts receive_text has returned
    pending,              \* per connection: the send its endpoint coroutine is suspended in, if any
    fan,                  \* per broadcaster: the tasks of its last broadcast_to_bots call
    observed,             \* the connections whose socket the run records (fixed at the start)
    received,             \* history variable: per observed connection, the messages written to its socket, in order
    stalled,              \* the viewers whose socket completes no send (the peer reads nothing and does not close)
    heard,                \* history variable: per viewer, the last text its receive_text returned
    gen,                  \* per viewer: the last generate_reaction call of its endpoint: arguments and result
    raised                \* history variable: the registry operations that have raised to their caller

storeVars == <<stream_contexts, max_message_history, now, added, called, manager_contexts>>

regVars == <<broadcaster, bot_viewers, bot_info, pc, inbox, nrecv, pending, fan,
            observed, received, stalled, heard, gen, raised>>

vars == <<stream_contexts, max_message_history, now, added, called, manager_contexts,
          broadcaster, bot_viewers, bot_info, pc, inbox, nrecv, pending, fan,
          observed, received, stalled, heard, gen, raised>>

(***************************************************************************)
(* StreamContextService                                                    *)
(***************************************************************************)
DefaultTitle == "Test Stream"

NewContext(t) ==
    [title |-> DefaultTitle, start_time |-> t, duration |-> 0, topics |-> {},
     mood |-> "neutral", previous_messages |-> <<>>, viewers |-> 0,
     broadcaster_info |-> <<>>, message_count |-> 0]

init_context(ctxs, sid, t) ==
    [s \in (DOMAIN ctxs) \cup {sid} |-> IF s = sid THEN NewContext(t) ELSE ctxs[s]]

\* mutant: a get_context that makes a new context whether or not one exists
get_context_recreating(ctxs, sid, t) == init_context(ctxs, sid, t)

get_context(ctxs, sid, t) ==
    LET c1 == IF sid \in DOMAIN ctxs THEN ctxs ELSE init_context(ctxs, sid, t)
    IN  IF c1[sid].start_time # 0
        THEN [c1 EXCEPT ![sid].duration = t - c1[sid].start_time]
        ELSE c1

\* [word.lower() for word in title.split() if len(word) > 2]
Keywords(title) ==
    LET ws == Split(Chars(title))
    IN  {Lower(ws[i]) : i \in {j \in 1..Len(ws) : Len(ws[j]) > MinTopicLen}}

\* Keywords, tabulated once for the titles of the model
KeywordsOf == [title \in Titles |-> Keywords(title)]

\* mutant: the topics are replaced by the keywords of the new title
update_title_replacing(ctxs, title, sid, t) ==
    LET c1 == get_context(ctxs, sid, t)
    IN  [c1 EXCEPT ![sid].title = title, ![sid].topics = KeywordsOf[title]]

update_title(ctxs, title, sid, t) ==
    LET c1 == get_context(ctxs, sid, t)
    IN  [c1 EXCEPT ![sid].title = title,
                   ![sid].topics = c1[sid].topics \cup KeywordsOf[title]]

\* previous_messages[-10:]
\* mutant: a history that is never cut
LastKeep_all(h) == h

LastKeep(h) ==
    IF Len(h) > HistoryKeep THEN SubSeq(h, Len(h) - HistoryKeep + 1, Len(h)) ELSE h

\* mutant: message_count follows the length of the truncated history
add_message_counting_history(ctxs, message, sid, t) ==
    LET c1 == get_context(ctxs, sid, t)
        h  == LastKeep(Append(c1[sid].previous_messages, message))
    IN  [c1 EXCEPT ![sid].message_count = Len(h), ![sid].previous_messages = h]

add_message(ctxs, message, sid, t) ==
    LET c1 == get_context(ctxs, sid, t)
    IN  [c1 EXCEPT ![sid].message_count = @ + 1,
                   ![sid].previous_messages = LastKeep(Append(@, message))]

\* mutant: an update of the viewer count that writes it to every context
update_viewers_everywhere(ctxs, count, sid, t) ==
    LET c1 == get_context(ctxs, sid, t)
    IN  [s \in DOMAIN c1 |-> [c1[s] EXCEPT !.viewers = count]]

update_viewers(ctxs, count, sid, t) ==
    LET c1 == get_context(ctxs, sid, t)
    IN  [c1 EXCEPT ![sid].viewers = count]

\* mutant: a reset that clears the messages and the counters and keeps the title and the topics
reset_context_partial(ctxs, sid, t) ==
    LET c1 == get_context(ctxs, sid, t)
    IN  [c1 EXCEPT ![sid].previous_messages = <<>>, ![sid].message_count = 0,
                   ![sid].mood = "neutral", ![sid].viewers = 0,
                   ![sid].start_time = t, ![sid].duration = 0]

reset_context(ctxs, sid, t) ==
    get_context(init_context(ctxs, sid, t), sid, t)

positive_words ==
    << <<"U+697D", "U+3057", "U+3044">>,
       <<"U+5B09", "U+3057", "U+3044">>,
       <<"U+9762", "U+767D", "U+3044">>,
       <<"U+3059", "U+3054", "U+3044">>,
       <<"U+597D", "U+304D">>,
       <<"U+6700", "U+9AD8">>,
       <<"h", "a", "p", "p", "y">>,
       <<"f", "u", "n">>,
       <<"g", "r", "e", "a", "t">> >>

negative_words ==
    << <<"U+96E3", "U+3057", "U+3044">>,
       <<"U+60B2", "U+3057", "U+3044">>,
       <<"U+8F9B", "U+3044">>,
       <<"U+82E6", "U+3057", "U+3044">>,
       <<"U+5ACC", "U+3044">>,
       <<"U+6700", "U+60AA">>,
       <<"s", "a", "d">>,
       <<"h", "a", "r", "d">>,
       <<"t", "o", "u", "g", "h">> >>

excited_words ==
    << <<"U+308F", "U+304F", "U+308F", "U+304F">>,
       <<"U+8208", "U+596E">>,
       <<"U+6FC0", "U+30A2", "U+30C4">>,
       <<"U+30C6", "U+30F3", "U+30B7", "U+30E7", "U+30F3">>,
       <<"e", "x", "c", "i", "t", "e", "d">>,
       <<"a", "m", "a", "z", "i", "n", "g">> >>

\* sum([1 for word in words if word in content_lower])
WordCount(words, content) ==
    Cardinality({i \in 1..Len(words) : Contains(Lower(Chars(content)), words[i])})

positive_count(content) == WordCount(positive_words, content)

negative_count(content) == WordCount(negative_words, content)

excited_count(content) == WordCount(excited_words, content)

\* the three counts, tabulated once for the contents of the model
Counts ==
    [content \in Contents |->
        [positive |-> positive_count(content),
         negative |-> negative_count(content),
         excited  |-> excited_count(content)]]

\* mutant: the positive and negative branches are tried before the excited one
NextMood_excited_last(old, count, content) ==
    IF Counts[content].positive > Counts[content].negative THEN "positive"
    ELSE IF Counts[content].negative > Counts[content].positive THEN "negative"
    ELSE IF Counts[content].excited > 0 THEN "excited"
    ELSE IF count % MoodResetEvery = 0 THEN "neutral"
    ELSE old

\* the mood analyze_mood leaves in a context whose mood is old and whose message_count is count
NextMood(old, count, content) ==
    IF Counts[content].excited > 0 THEN "excited"
    ELSE IF Counts[content].positive > Counts[content].negative THEN "positive"
    ELSE IF Counts[content].negative > Counts[content].positive THEN "negative"
    ELSE IF count % MoodResetEvery = 0 THEN "neutral"
    ELSE old

analyze_mood(ctxs, content, sid, t) ==
    LET c1 == get_context(ctxs, sid, t)
    IN  [c1 EXCEPT ![sid].mood = NextMood(c1[sid].mood, c1[sid].message_count, content)]

(***************************************************************************)
(* StreamContextManager, the store of the single-file program              *)
(* src/bot_system.py.  The application of bot_system/app.py never calls    *)
(* it: there its contexts stay as its constructor leaves them.             *)
(***************************************************************************)
\* the default title of StreamContextManager, written by its code points
ManagerDefaultTitle == "<U+30C6 U+30B9 U+30C8 U+914D U+4FE1>"

ManagerNewContext(t) ==
    [title |-> ManagerDefaultTitle, start_time |-> t, duration |-> 0, topics |-> {},
     mood |-> "neutral", previous_messages |-> <<>>, viewers |-> 0,
     broadcaster_info |-> <<>>, message_count |-> 0]

manager_init_context(ctxs, sid, t) ==
    [s \in (DOMAIN ctxs) \cup {sid} |-> IF s = sid THEN ManagerNewContext(t) ELSE ctxs[s]]

\* the duration is written whatever start_time is
manager_get_context(ctxs, sid, t) ==
    LET c1 == IF sid \in DOMAIN ctxs THEN ctxs ELSE manager_init_context(ctxs, sid, t)
    IN  [c1 EXCEPT ![sid].duration = t - c1[sid].start_time]

\* [word.lower() for word in title.split() if len(word) > 2]
ManagerKeywords(title) ==
    LET ws == Split(Chars(title))
    IN  {Lower(ws[i]) : i \in {j \in 1..Len(ws) : Len(ws[j]) > ManagerMinTopicLen}}

\* ManagerKeywords, tabulated once for the titles of the model
ManagerKeywordsOf == [title \in Titles |-> ManagerKeywords(title)]

\* mutant: the topics are replaced by the keywords of the new title
manager_update_title_replacing(ctxs, title, sid, t) ==
    LET c1 == manager_get_context(ctxs, sid, t)
    IN  [c1 EXCEPT ![sid].title = title, ![sid].topics = ManagerKeywordsOf[title]]

manager_update_title(ctxs, title, sid, t) ==
    LET c1 == manager_get_context(ctxs, sid, t)
    IN  [c1 EXCEPT ![sid].title = title,
                   ![sid].topics = c1[sid].topics \cup ManagerKeywordsOf[title]]

\* previous_messages[-10:] once there are more than 10
ManagerLastKeep(h) ==
    IF Len(h) > ManagerHistoryKeep
    THEN SubSeq(h, Len(h) - ManagerHistoryKeep + 1, Len(h))
    ELSE h

manager_add_message(ctxs, message, sid, t) ==
    LET c1 == manager_get_context(ctxs, sid, t)
    IN  [c1 EXCEPT ![sid].message_count = @ + 1,
                   ![sid].previous_messages = ManagerLastKeep(Append(@, message))]

manager_update_viewers(ctxs, count, sid, t) ==
    LET c1 == manager_get_context(ctxs, sid, t)
    IN  [c1 EXCEPT ![sid].viewers = count]

manager_reset_context(ctxs, sid, t) ==
    manager_get_context(manager_init_context(ctxs, sid, t), sid, t)

\* the word lists of StreamContextManager.analyze_mood
manager_positive_words ==
    << <<"U+697D", "U+3057", "U+3044">>,
       <<"U+5B09", "U+3057", "U+3044">>,
       <<"U+9762", "U+767D", "U+3044">>,
       <<"U+3059", "U+3054", "U+3044">>,
       <<"U+597D", "U+304D">>,
       <<"U+6700", "U+9AD8">>,
       <<"h", "a", "p", "p", "y">>,
       <<"f", "u", "n">>,
       <<"g", "r", "e", "a", "t">> >>

manager_negative_words ==
    << <<"U+96E3", "U+3057", "U+3044">>,
       <<"U+60B2", "U+3057", "U+3044">>,
       <<"U+8F9B", "U+3044">>,
       <<"U+82E6", "U+3057", "U+3044">>,
       <<"U+5ACC", "U+3044">>,
       <<"U+6700", "U+60AA">>,
       <<"s", "a", "d">>,
       <<"h", "a", "r", "d">>,
       <<"t", "o", "u", "g", "h">> >>

manager_excited_words ==
    << <<"U+308F", "U+304F", "U+308F", "U+304F">>,
       <<"U+8208", "U+596E">>,
       <<"U+6FC0", "U+30A2", "U+30C4">>,
       <<"U+30C6", "U+30F3", "U+30B7", "U+30E7", "U+30F3">>,
       <<"e", "x", "c", "i", "t", "e", "d">>,
       <<"a", "m", "a", "z", "i", "n", "g">> >>

\* the three counts of StreamContextManager.analyze_mood, tabulated once for the contents of the model
ManagerCounts ==
    [content \in MoodContents |->
        [positive |-> WordCount(manager_positive_words, content),
         negative |-> WordCount(manager_negative_words, content),
         excited  |-> WordCount(manager_excited_words, content)]]

\* the mood StreamContextManager.analyze_mood leaves
ManagerNextMood(old, count, content) ==
    IF ManagerCounts[content].excited > 0 THEN "excited"
    ELSE IF ManagerCounts[content].positive > ManagerCounts[content].negative THEN "positive"
    ELSE IF ManagerCounts[content].negative > ManagerCounts[content].positive THEN "negative"
    ELSE IF count % ManagerMoodResetEvery = 0 THEN "neutral"
    ELSE old

manager_analyze_mood(ctxs, content, sid, t) ==
    LET c1 == manager_get_context(ctxs, sid, t)
    IN  [c1 EXCEPT ![sid].mood =
            ManagerNextMood(c1[sid].mood, c1[sid].message_count, content)]

(***************************************************************************)
(* Messages                                                                *)
(***************************************************************************)
\* a text that is no JSON, a JSON object with content and a stream title, the get_viewers command
PlainText == "Hello everyone"

TitledJson ==
    "{\"content\": \"this is amazing\", \"metadata\": {\"stream_title\": \"Hello World Stream\"}}"

GetViewersJson == "{\"content\": \"\", \"command\": \"get_viewers\"}"

\* a content message that carries a command other than get_viewers
OtherCommandJson == "{\"content\": \"Hello everyone\", \"command\": \"mute\"}"

\* a stream title that is no str: the JSON number 123
NumberTitle == "<123>"

\* a content message whose stream_title is that number
NumberTitleJson == "{\"content\": \"Hello everyone\", \"metadata\": {\"stream_title\": 123}}"

EmptyDict == <<>>

\* json.loads of a text: the object it denotes, if it denotes one
JsonOf(data) ==
    IF data = TitledJson
    THEN [ok |-> TRUE,
          obj |-> [content |-> "this is amazing",
                   metadata |-> [stream_title |-> "Hello World Stream"]]]
    ELSE IF data = GetViewersJson
    THEN [ok |-> TRUE, obj |-> [content |-> "", command |-> "get_viewers"]]
    ELSE IF data = CommandOnlyJson
    THEN [ok |-> TRUE, obj |-> [command |-> "get_viewers"]]
    ELSE IF data = NumberTitleJson
    THEN [ok |-> TRUE,
          obj |-> [content |-> "Hello everyone", metadata |-> [stream_title |-> NumberTitle]]]
    ELSE IF data = OtherCommandJson
    THEN [ok |-> TRUE, obj |-> [content |-> "Hello everyone", command |-> "mute"]]
    ELSE [ok |-> FALSE, obj |-> EmptyDict]

\* mutant: a text that does not validate is turned into a command nobody knows
ParseStreamContent_dropping(data) ==
    LET j == JsonOf(data)
    IN  IF j.ok /\ "content" \in DOMAIN j.obj
        THEN [type |-> "stream_content",
              content |-> j.obj.content,
              command |-> IF "command" \in DOMAIN j.obj THEN j.obj.command ELSE None,
              metadata |-> IF "metadata" \in DOMAIN j.obj THEN j.obj.metadata ELSE EmptyDict]
        ELSE [type |-> "stream_content", content |-> "", command |-> "invalid",
              metadata |-> EmptyDict]

\* StreamContent.parse_raw_or_text: the validated model, or the text as plain content
ParseStreamContent(data) ==
    LET j == JsonOf(data)
    IN  IF j.ok /\ "content" \in DOMAIN j.obj
        THEN [type |-> "stream_content",
              content |-> j.obj.content,
              command |-> IF "command" \in DOMAIN j.obj THEN j.obj.command ELSE None,
              metadata |-> IF "metadata" \in DOMAIN j.obj THEN j.obj.metadata ELSE EmptyDict]
        ELSE [type |-> "stream_content", content |-> data, command |-> None,
              metadata |-> EmptyDict]

\* metadata.get("stream_title")
StreamTitleOf(message_data) ==
    IF "stream_title" \in DOMAIN message_data.metadata
    THEN message_data.metadata.stream_title
    ELSE None

\* the bot_info dicts viewers send
BotInfos == {[personality_type |-> "curious"]}

\* the texts a viewer client sends: a heartbeat, a reaction, a text that is no JSON
HeartbeatJson == "{\"type\": \"heartbeat\", \"bot_info\": {\"personality_type\": \"curious\"}}"

ReactionJson ==
    "{\"type\": \"reaction\", \"content\": \"so happy\", \"bot_info\": {\"personality_type\": \"curious\"}}"

NotJson == "not json"

\* the request the viewer client sends for a content message it was delivered
ContentRequestJson ==
    "{\"type\": \"receive_stream_content\", \"content\": \"Hello everyone\", \"bot_info\": {\"personality_type\": \"curious\"}}"

\* a message of a type process_bot_message does not know
UnknownTypeJson == "{\"type\": \"dance\", \"content\": \"la la\"}"

\* a second reaction, with another content
SecondReactionJson ==
    "{\"type\": \"reaction\", \"content\": \"great stream\", \"bot_info\": {\"personality_type\": \"curious\"}}"

ViewerTexts == {HeartbeatJson, ReactionJson, NotJson}

\* json.loads of a viewer text: the object it denotes, if it denotes one
BotJsonOf(data) ==
    IF data = HeartbeatJson
    THEN [ok |-> TRUE,
          obj |-> [type |-> "heartbeat", bot_info |-> [personality_type |-> "curious"]]]
    ELSE IF data = ReactionJson
    THEN [ok |-> TRUE,
          obj |-> [type |-> "reaction", content |-> "so happy",
                   bot_info |-> [personality_type |-> "curious"]]]
    ELSE IF data = SecondReactionJson
    THEN [ok |-> TRUE,
          obj |-> [type |-> "reaction", content |-> "great stream",
                   bot_info |-> [personality_type |-> "curious"]]]
    ELSE IF data = UnknownTypeJson
    THEN [ok |-> TRUE, obj |-> [type |-> "dance", content |-> "la la"]]
    ELSE IF data = ContentRequestJson
    THEN [ok |-> TRUE,
          obj |-> [type |-> "receive_stream_content", content |-> "Hello everyone",
                   bot_info |-> [personality_type |-> "curious"]]]
    ELSE [ok |-> FALSE, obj |-> EmptyDict]

\* mutant: a viewer text that does not validate becomes a reaction whose content is the text
ParseBotReaction_as_reaction(data) ==
    LET j == BotJsonOf(data)
    IN  IF j.ok
        THEN [type |-> IF "type" \in DOMAIN j.obj THEN j.obj.type ELSE "bot_reaction",
              content |-> IF "content" \in DOMAIN j.obj THEN j.obj.content ELSE "",
              bot_info |-> IF "bot_info" \in DOMAIN j.obj THEN j.obj.bot_info ELSE EmptyDict]
        ELSE [type |-> "reaction", content |-> data, bot_info |-> EmptyDict]

\* BotReaction.parse_raw_or_text: the validated model, or a heartbeat that carries nothing
ParseBotReaction(data) ==
    LET j == BotJsonOf(data)
    IN  IF j.ok
        THEN [type |-> IF "type" \in DOMAIN j.obj THEN j.obj.type ELSE "bot_reaction",
              content |-> IF "content" \in DOMAIN j.obj THEN j.obj.content ELSE "",
              bot_info |-> IF "bot_info" \in DOMAIN j.obj THEN j.obj.bot_info ELSE EmptyDict]
        ELSE [type |-> "heartbeat", content |-> "", bot_info |-> EmptyDict]

\* the messages a viewer client sends, as BotReaction.parse_raw_or_text returns them
ViewerData == {ParseBotReaction(data) : data \in ViewerTexts}

NoSend == [to |-> None]

NoGen == [content |-> None]

NoFan == [id |-> <<None, 0>>, at_start |-> <<>>, tasks |-> <<>>, msg |-> None]

(***************************************************************************)
(* ConnectionService                                                       *)
(***************************************************************************)
Range(f) == {f[x] : x \in DOMAIN f}

\* list.remove(x): the list without the first occurrence of x
RemoveFirst(list, x) ==
    LET i == CHOOSE k \in 1..Len(list) :
                 list[k] = x /\ \A j \in 1..(k - 1) : list[j] # x
    IN  SubSeq(list, 1, i - 1) \o SubSeq(list, i + 1, Len(list))

\* del d[key]
DictWithout(d, key) == [k \in (DOMAIN d) \ {key} |-> d[k]]

\* d1.update(d2)
DictUpdate(d1, d2) ==
    [k \in (DOMAIN d1) \cup (DOMAIN d2) |-> IF k \in DOMAIN d2 THEN d2[k] ELSE d1[k]]

\* mutant: connect_broadcaster without its check of the slot
connect_broadcaster_unchecked(slot) == TRUE

\* connect_broadcaster: whether the slot is free at the check that opens it
connect_broadcaster_free(slot) == slot = None

\* broadcaster_endpoint: where the coroutine goes once connect_broadcaster has returned
endpoint_after_connect(accepted) == IF accepted THEN "greeting" ELSE "rejected"

\* mutant: a disconnect that leaves the slot as it is
disconnect_broadcaster_keeping(slot) == slot

disconnect_broadcaster(slot) == None

\* mutant: a disconnect that, for a connection it does not find, drops the newest viewer
disconnect_bot_viewer_dropping(viewers, info, websocket) ==
    [bot_viewers |-> IF websocket \in Range(viewers)
                     THEN RemoveFirst(viewers, websocket)
                     ELSE SubSeq(viewers, 1, Len(viewers) - 1),
     bot_info |-> IF websocket \in DOMAIN info
                  THEN DictWithout(info, websocket) ELSE info]

disconnect_bot_viewer(viewers, info, websocket) ==
    [bot_viewers |-> IF websocket \in Range(viewers)
                     THEN RemoveFirst(viewers, websocket) ELSE viewers,
     bot_info |-> IF websocket \in DOMAIN info
                  THEN DictWithout(info, websocket) ELSE info]

\* mutant: a connect that appends the viewer and makes no profile
connect_bot_viewer_without_profile(viewers, info, websocket, t) ==
    [bot_viewers |-> Append(viewers, websocket), bot_info |-> info]

connect_bot_viewer(viewers, info, websocket, t) ==
    [bot_viewers |-> Append(viewers, websocket),
     bot_info |-> [k \in (DOMAIN info) \cup {websocket} |->
                      IF k = websocket THEN [connected_at |-> t] ELSE info[k]]]

\* mutant: send_to_bot that reports the error and keeps the viewer
send_to_bot_keeping(viewers, info, bot, result) ==
    [bot_viewers |-> viewers, bot_info |-> info, raises |-> FALSE]

\* send_to_bot once bot.send_text has ended with result "ok" or "error":
\* the registry it leaves and whether it raises to its caller
send_to_bot(viewers, info, bot, result) ==
    IF result = "ok"
    THEN [bot_viewers |-> viewers, bot_info |-> info, raises |-> FALSE]
    ELSE LET d == disconnect_bot_viewer(viewers, info, bot)
         IN  [bot_viewers |-> d.bot_viewers, bot_info |-> d.bot_info, raises |-> FALSE]

\* broadcast_to_bots: one send_to_bot task per viewer of the list
broadcast_tasks(viewers) == [v \in Range(viewers) |-> "ready"]

\* mutant: a gather that returns at the first task that fails
gather_first_exception(tasks) ==
    \/ \E v \in DOMAIN tasks : tasks[v] = "failed"
    \/ \A v \in DOMAIN tasks : tasks[v] = "ok"

\* asyncio.gather(*tasks, return_exceptions=True) returns once every task has ended
gather_done(tasks) == \A v \in DOMAIN tasks : tasks[v] \in {"ok", "failed"}

\* mutant: send_to_broadcaster without its try/except
send_to_broadcaster_uncaught(slot, result) ==
    [broadcaster |-> slot, raises |-> result # "ok"]

\* send_to_broadcaster once broadcaster.send_text has ended with result "ok" or "error":
\* the slot it leaves and whether it raises to its caller
send_to_broadcaster(slot, result) ==
    IF result = "ok"
    THEN [broadcaster |-> slot, raises |-> FALSE]
    ELSE [broadcaster |-> disconnect_broadcaster(slot), raises |-> FALSE]

\* mutant: an update that replaces the profile by the dict received
update_bot_info_replacing(info, websocket, d) ==
    IF websocket \in DOMAIN info
    THEN [info EXCEPT ![websocket] = d]
    ELSE info

update_bot_info(info, websocket, d) ==
    IF websocket \in DOMAIN info
    THEN [info EXCEPT ![websocket] = DictUpdate(@, d)]
    ELSE info

get_bot_count(viewers) == Len(viewers)

\* a truthy str: neither None nor empty
Truthy(x) == x # None /\ x # ""

SystemMessage(viewers) == [type |-> "system_info", count |-> get_bot_count(viewers)]

\* what the external generator returns when its call succeeds
GeneratedTexts == {"nice!"}

\* ReactionService.generate_reaction once it has ended: outcome is the text the
\* external call returned, or "error" when the call raised.  Every exception is
\* caught in line 232 and the function then returns None.  The history of the
\* context holds strings, so for a context with a history msg_data.get
\* (line 147) raises before the external call is made.
generate_reaction(content, info, stream_context, outcome) ==
    IF stream_context.previous_messages # <<>>
    THEN None
    ELSE IF outcome = "error" THEN None ELSE outcome

\* mutant: the request of a viewer is recorded in the history of the stream
ContextForRequest_recording(ctxs, message_data, stream_id, t) ==
    add_message(ctxs, message_data.content, stream_id, t)

\* process_bot_message, line 221: the store after the context for a request was fetched
ContextForRequest(ctxs, message_data, stream_id, t) ==
    get_context(ctxs, stream_id, t)

\* BotReaction(...) validates its fields: content is declared str, None is refused
ResponseValid(ai_reaction) == ai_reaction # None

\* mutant: a forward that marks the viewer's reaction as generated
ReactionForward_marked(message_data) ==
    [type |-> "bot_reaction",
     content |-> message_data.content,
     bot_info |-> message_data.bot_info,
     ai_generated |-> TRUE]

\* process_bot_message, lines 206-211: a viewer's reaction as it is forwarded to the broadcaster
ReactionForward(message_data) ==
    [type |-> "bot_reaction",
     content |-> message_data.content,
     bot_info |-> message_data.bot_info,
     ai_generated |-> FALSE]

\* process_bot_message, lines 231-237: the generated reaction as it is sent to the requesting viewer
AiResponse(ai_reaction, info) ==
    [type |-> "reaction", content |-> ai_reaction, bot_info |-> info, ai_generated |-> TRUE]

\* mutant: a mirror that does not mark the reaction as generated
AiMirror_unmarked(ai_reaction, info) ==
    [type |-> "bot_reaction", content |-> ai_reaction, bot_info |-> info, ai_generated |-> FALSE]

\* process_bot_message, lines 244-250: the generated reaction as it is mirrored to the broadcaster
AiMirror(ai_reaction, info) ==
    [type |-> "bot_reaction", content |-> ai_reaction, bot_info |-> info, ai_generated |-> TRUE]

\* mutant: the count of the notice is taken before the viewer is removed
ViewerUpdate_counting_the_leaver(viewers, event) ==
    [type |-> "viewer_update",
     count |-> get_bot_count(viewers) + (IF event = "leave" THEN 1 ELSE 0),
     event |-> event]

ViewerUpdate(viewers, event) ==
    [type |-> "viewer_update", count |-> get_bot_count(viewers), event |-> event]

\* mutant: the mood is analyzed before the message is added
ContentUpdate_analyze_first(ctxs, message_data, stream_id, viewers, t) ==
    LET title == StreamTitleOf(message_data)
        c1 == IF Truthy(title) THEN update_title(ctxs, title, stream_id, t) ELSE ctxs
        c2 == analyze_mood(c1, message_data.content, stream_id, t)
        c3 == add_message(c2, message_data.content, stream_id, t)
        c4 == update_viewers(c3, get_bot_count(viewers), stream_id, t)
    IN  get_context(c4, stream_id, t)

\* process_broadcaster_message, lines 92-106: the store after a content message
\* isinstance(x, str)
IsStr(x) == x # NumberTitle

\* process_broadcaster_message raises inside its try: update_title calls
\* title.split() (context_service.py:89), which a title that is no str does not have
ProcessRaises(message_data) ==
    Truthy(StreamTitleOf(message_data)) /\ ~ IsStr(StreamTitleOf(message_data))

\* update_title up to the line that raises: the context exists and has the title
TitleOnly(ctxs, title, sid, t) ==
    LET c1 == get_context(ctxs, sid, t)
    IN  [c1 EXCEPT ![sid].title = title]

ContentUpdate(ctxs, message_data, stream_id, viewers, t) ==
    LET title == StreamTitleOf(message_data)
        c1 == IF Truthy(title) THEN update_title(ctxs, title, stream_id, t) ELSE ctxs
        c2 == add_message(c1, message_data.content, stream_id, t)
        c3 == analyze_mood(c2, message_data.content, stream_id, t)
        c4 == update_viewers(c3, get_bot_count(viewers), stream_id, t)
    IN  get_context(c4, stream_id, t)

\* mutant: the count of the message includes the broadcaster
StreamContentMessage_counting_broadcaster(ctx, content, viewers, call) ==
    [type |-> "stream_content", content |-> content, title |-> ctx.title,
     viewers |-> get_bot_count(viewers) + 1, mood |-> ctx.mood, call |-> call]

\* the stream_content message fanned out; call names the broadcast_to_bots call
StreamContentMessage(ctx, content, viewers, call) ==
    [type |-> "stream_content", content |-> content, title |-> ctx.title,
     viewers |-> get_bot_count(viewers), mood |-> ctx.mood, call |-> call]

(***************************************************************************)
(* Initial state: StreamContextService.__init__ has created the default    *)
(* context.                                                                *)
(***************************************************************************)
InitWith(cap, sockets) ==
    /\ now = 1
    /\ max_message_history = cap
    /\ stream_contexts = init_context(<<>>, "default", 1)
    /\ added = [s \in {"default"} |-> <<>>]
    /\ called = [op |-> None, dirty |-> FALSE]
    /\ manager_contexts = manager_init_context(<<>>, "default", 1)
    /\ broadcaster = None
    /\ bot_viewers = <<>>
    /\ bot_info = <<>>
    /\ pc = [c \in Conns |-> "idle"]
    /\ inbox = [b \in Broadcasters |-> <<>>]
    /\ nrecv = [c \in Conns |-> 0]
    /\ pending = [c \in Conns |-> NoSend]
    /\ fan = [b \in Broadcasters |-> NoFan]
    /\ observed = sockets
    /\ received = [c \in Conns |-> <<>>]
    /\ stalled = {}
    /\ heard = [v \in Viewers |-> None]
    /\ gen = [v \in Viewers |-> NoGen]
    /\ raised = {}

Init == InitWith(DefaultMaxMessageHistory, Viewers)

\* the same start, recording no socket
SlotInit == InitWith(DefaultMaxMessageHistory, {})

\* the same start, recording the socket of the viewer that never stalls
FairInit == InitWith(DefaultMaxMessageHistory, {"v2"})

\* the same start, recording the socket of the first broadcaster
NoticeInit == InitWith(DefaultMaxMessageHistory, {"b1"})

\* the service constructed with either the default or a smaller max_message_history
ConfigInit == \E cap \in {SmallHistory, DefaultMaxMessageHistory} : InitWith(cap, Viewers)

(***************************************************************************)
(* The store's operations called directly.                                 *)
(***************************************************************************)
Tick ==
    /\ now < MaxTime
    /\ now' = now + 1
    /\ UNCHANGED <<stream_contexts, max_message_history, added, called, manager_contexts>>
    /\ UNCHANGED regVars

\* the context of sid exists and none of its fields but the times has its default
Dirty(sid) ==
    /\ sid \in DOMAIN stream_contexts
    /\ stream_contexts[sid].title # DefaultTitle
    /\ stream_contexts[sid].topics # {}
    /\ stream_contexts[sid].mood # "neutral"
    /\ stream_contexts[sid].previous_messages # <<>>
    /\ stream_contexts[sid].viewers # 0
    /\ stream_contexts[sid].message_count # 0

Called(op, sid) == [op |-> op, dirty |-> Dirty(sid)]

\* the history variable follows the store: a created or reset context starts an empty log
AddedAfter(ctxs2, sid, log) ==
    [s \in DOMAIN ctxs2 |-> IF s = sid THEN log
                            ELSE IF s \in DOMAIN added THEN added[s] ELSE <<>>]

LogOf(sid) == IF sid \in DOMAIN added THEN added[sid] ELSE <<>>

GetContext(sid) ==
    /\ stream_contexts' = get_context(stream_contexts, sid, now)
    /\ added' = AddedAfter(stream_contexts', sid, LogOf(sid))
    /\ called' = Called("get_context", sid)
    /\ UNCHANGED <<max_message_history, manager_contexts, now>>
    /\ UNCHANGED regVars

UpdateTitle(sid, title) ==
    /\ stream_contexts' = update_title(stream_contexts, title, sid, now)
    /\ added' = AddedAfter(stream_contexts', sid, LogOf(sid))
    /\ called' = Called("update_title", sid)
    /\ UNCHANGED <<max_message_history, manager_contexts, now>>
    /\ UNCHANGED regVars

AddMessage(sid) ==
    /\ Len(LogOf(sid)) < MaxMessages
    /\ LET message == MsgNames[Len(LogOf(sid)) + 1]
       IN  /\ stream_contexts' = add_message(stream_contexts, message, sid, now)
           /\ added' = AddedAfter(stream_contexts', sid, Append(LogOf(sid), message))
    /\ called' = Called("add_message", sid)
    /\ UNCHANGED <<max_message_history, manager_contexts, now>>
    /\ UNCHANGED regVars

UpdateViewers(sid, count) ==
    /\ stream_contexts' = update_viewers(stream_contexts, count, sid, now)
    /\ added' = AddedAfter(stream_contexts', sid, LogOf(sid))
    /\ called' = Called("update_viewers", sid)
    /\ UNCHANGED <<max_message_history, manager_contexts, now>>
    /\ UNCHANGED regVars

ResetContext(sid) ==
    /\ stream_contexts' = reset_context(stream_contexts, sid, now)
    /\ added' = AddedAfter(stream_contexts', sid, <<>>)
    /\ called' = Called("reset_context", sid)
    /\ UNCHANGED <<max_message_history, manager_contexts, now>>
    /\ UNCHANGED regVars

AnalyzeMood(sid, content) ==
    /\ stream_contexts' = analyze_mood(stream_contexts, content, sid, now)
    /\ added' = AddedAfter(stream_contexts', sid, LogOf(sid))
    /\ called' = Called("analyze_mood", sid)
    /\ UNCHANGED <<max_message_history, manager_contexts, now>>
    /\ UNCHANGED regVars

(***************************************************************************)
(* The endpoint coroutines of bot_system/app.py.  A coroutine runs without *)
(* interruption from one await to the next; each action below is one such  *)
(* stretch.  pc names the await a coroutine is suspended in:               *)
(*   idle        the client has not connected                              *)
(*   accepting   websocket.accept()                                        *)
(*   closing     websocket.close() of a refused broadcaster                *)
(*   rejected    connect_broadcaster returned False, the endpoint returned *)
(*   greeting    the send_to_broadcaster that opens broadcaster_endpoint   *)
(*   receiving   websocket.receive_text()                                  *)
(*   replying    the send_to_broadcaster of handle_broadcaster_command     *)
(*   broadcasting  asyncio.gather in broadcast_to_bots                     *)
(*   infosend    the send_to_bot that opens bot_viewer_endpoint            *)
(*   joinsend, leavesend, reactsend, mirrorsend                            *)
(*               a viewer's send_to_broadcaster                            *)
(*   generating  reaction_service.generate_reaction                        *)
(*   aisend      the websocket.send_text of a generated reaction           *)
(*   closed      the endpoint has returned or raised                       *)
(***************************************************************************)
\* mutant: a socket that hands over the last message written first
Written_newest_first(c, m) ==
    IF c \in observed THEN [received EXCEPT ![c] = <<m>> \o @] ELSE received

\* the message m is written to the socket of c
Written(c, m) ==
    IF c \in observed THEN [received EXCEPT ![c] = Append(@, m)] ELSE received

\* Connections of one role are interchangeable: the clients connect in the order of their names.
Earlier(c) ==
    IF c = "b2" THEN {"b1"} ELSE IF c = "v2" THEN {"v1"} ELSE {}

\* the client of b opens a websocket to /broadcaster: connect_broadcaster up to its await
BConnect(b) ==
    /\ pc[b] = "idle"
    /\ \A c \in Earlier(b) : pc[c] # "idle"
    /\ pc' = [pc EXCEPT ![b] = IF connect_broadcaster_free(broadcaster)
                               THEN "accepting" ELSE "closing"]
    /\ UNCHANGED <<storeVars, broadcaster, bot_viewers, bot_info, inbox, nrecv,
                   pending, fan, received, stalled, raised, observed>>
    /\ UNCHANGED <<heard, gen>>

\* websocket.close() ends: connect_broadcaster returns False (or raises) and the endpoint ends
BCloseDone(b) ==
    /\ pc[b] = "closing"
    /\ pc' = [pc EXCEPT ![b] = endpoint_after_connect(FALSE)]
    /\ UNCHANGED <<storeVars, broadcaster, bot_viewers, bot_info, inbox, nrecv,
                   pending, fan, received, stalled, raised, observed>>
    /\ UNCHANGED <<heard, gen>>

\* websocket.accept() returns: the slot is taken, the stream context is reset and
\* the first system_info is being sent
BAcceptDone(b) ==
    /\ pc[b] = "accepting"
    /\ broadcaster' = b
    /\ stream_contexts' = reset_context(stream_contexts, b, now)
    /\ added' = AddedAfter(stream_contexts', b, <<>>)
    /\ pending' = [pending EXCEPT ![b] = [to |-> b, msg |-> SystemMessage(bot_viewers)]]
    /\ pc' = [pc EXCEPT ![b] = endpoint_after_connect(TRUE)]
    /\ UNCHANGED <<max_message_history, manager_contexts, now, called, bot_viewers, bot_info, inbox, nrecv,
                   fan, received, stalled, raised, observed>>
    /\ UNCHANGED <<heard, gen>>

\* websocket.accept() raises: the endpoint ends before anything is registered
AcceptFail(c) ==
    /\ pc[c] = "accepting"
    /\ pc' = [pc EXCEPT ![c] = "closed"]
    /\ UNCHANGED <<storeVars, broadcaster, bot_viewers, bot_info, inbox, nrecv,
                   pending, fan, received, stalled, raised, observed>>
    /\ UNCHANGED <<heard, gen>>

\* the client of b sends a text, the max-th at most
BClientSend(b, data, max) ==
    /\ pc[b] \in {"greeting", "receiving", "replying", "broadcasting"}
    /\ nrecv[b] + Len(inbox[b]) < max
    /\ inbox' = [inbox EXCEPT ![b] = Append(@, data)]
    /\ UNCHANGED <<storeVars, broadcaster, bot_viewers, bot_info, pc, nrecv,
                   pending, fan, received, stalled, raised, observed>>
    /\ UNCHANGED <<heard, gen>>

\* a send_to_broadcaster that a coroutine is suspended in ends, with result "ok" or "error"
SendToBroadcasterDone(h, result) ==
    /\ pc[h] \in {"greeting", "replying", "joinsend", "leavesend", "reactsend", "mirrorsend"}
    /\ LET r == send_to_broadcaster(broadcaster, result)
       IN  /\ broadcaster' = r.broadcaster
           /\ raised' = IF r.raises THEN raised \cup {"send_to_broadcaster"} ELSE raised
    /\ received' = IF result = "ok"
                   THEN Written(pending[h].to, pending[h].msg)
                   ELSE received
    /\ pending' = [pending EXCEPT ![h] = NoSend]
    /\ pc' = [pc EXCEPT ![h] = IF pc[h] = "leavesend" THEN "closed" ELSE "receiving"]
    /\ stream_contexts' =
            IF pc[h] \in {"joinsend", "leavesend"}
            THEN update_viewers(stream_contexts, get_bot_count(bot_viewers), "default", now)
            ELSE stream_contexts
    /\ UNCHANGED <<max_message_history, manager_contexts, now, called, added, bot_viewers, bot_info, inbox, nrecv,
                   fan, stalled, observed>>
    /\ UNCHANGED <<heard, gen>>

\* receive_text returns the next text of b and process_broadcaster_message runs up to its await
BReceive(b) ==
    /\ pc[b] = "receiving"
    /\ inbox[b] # <<>>
    /\ inbox' = [inbox EXCEPT ![b] = Tail(@)]
    /\ nrecv' = [nrecv EXCEPT ![b] = @ + 1]
    /\ LET message_data == ParseStreamContent(Head(inbox[b]))
       IN  IF Truthy(message_data.command)
           THEN /\ IF message_data.command = "get_viewers" /\ broadcaster # None
                   THEN /\ pending' = [pending EXCEPT ![b] =
                                [to |-> broadcaster, msg |-> SystemMessage(bot_viewers)]]
                        /\ pc' = [pc EXCEPT ![b] = "replying"]
                   ELSE UNCHANGED <<pending, pc, observed>>
                /\ UNCHANGED <<stream_contexts, added, fan, observed>>
           ELSE IF ProcessRaises(message_data)
           THEN /\ stream_contexts' =
                        TitleOnly(stream_contexts, StreamTitleOf(message_data), b, now)
                /\ added' = AddedAfter(stream_contexts', b, LogOf(b))
                /\ UNCHANGED <<fan, pc, pending>>
           ELSE /\ stream_contexts' =
                        ContentUpdate(stream_contexts, message_data, b, bot_viewers, now)
                /\ added' = AddedAfter(stream_contexts', b,
                                       Append(LogOf(b), message_data.content))
                /\ IF bot_viewers = <<>>
                   THEN UNCHANGED <<fan, pc, observed>>
                   ELSE /\ fan' = [fan EXCEPT ![b] =
                                [id |-> <<b, nrecv'[b]>>,
                                 at_start |-> bot_viewers,
                                 tasks |-> broadcast_tasks(bot_viewers),
                                 msg |-> StreamContentMessage(stream_contexts'[b],
                                            message_data.content, bot_viewers,
                                            <<b, nrecv'[b]>>)]]
                        /\ pc' = [pc EXCEPT ![b] = "broadcasting"]
                /\ UNCHANGED pending
    /\ UNCHANGED <<max_message_history, manager_contexts, now, called, broadcaster, bot_viewers, bot_info,
                   received, stalled, raised, observed>>
    /\ UNCHANGED <<heard, gen>>

\* a send_to_bot task of the gather runs up to its bot.send_text
BTaskStart(b, v) ==
    /\ pc[b] = "broadcasting"
    /\ v \in DOMAIN fan[b].tasks
    /\ fan[b].tasks[v] = "ready"
    /\ fan' = [fan EXCEPT ![b].tasks[v] = "sending"]
    /\ UNCHANGED <<storeVars, broadcaster, bot_viewers, bot_info, pc, inbox, nrecv,
                   pending, received, stalled, raised, observed>>
    /\ UNCHANGED <<heard, gen>>

\* the bot.send_text of a task ends, with result "ok" or "error"; the gather returns with the last task
BTaskDone(b, v, result) ==
    /\ pc[b] = "broadcasting"
    /\ v \in DOMAIN fan[b].tasks
    /\ fan[b].tasks[v] = "sending"
    /\ v \notin stalled
    /\ LET r == send_to_bot(bot_viewers, bot_info, v, result)
       IN  /\ bot_viewers' = r.bot_viewers
           /\ bot_info' = r.bot_info
           /\ raised' = IF r.raises THEN raised \cup {"send_to_bot"} ELSE raised
    /\ fan' = [fan EXCEPT ![b].tasks[v] = IF result = "ok" THEN "ok" ELSE "failed"]
    /\ received' = IF result = "ok" THEN Written(v, fan[b].msg) ELSE received
    /\ pc' = [pc EXCEPT ![b] = IF gather_done(fan'[b].tasks)
                               THEN "receiving" ELSE "broadcasting"]
    /\ UNCHANGED <<storeVars, broadcaster, inbox, nrecv, pending, stalled, observed>>
    /\ UNCHANGED <<heard, gen>>

\* receive_text raises WebSocketDisconnect (or another exception): both handlers disconnect
BDisconnect(b) ==
    /\ pc[b] = "receiving"
    /\ inbox[b] = <<>>
    /\ broadcaster' = disconnect_broadcaster(broadcaster)
    /\ pc' = [pc EXCEPT ![b] = "closed"]
    /\ UNCHANGED <<storeVars, bot_viewers, bot_info, inbox, nrecv, pending, fan,
                   received, stalled, raised, observed>>
    /\ UNCHANGED <<heard, gen>>

\* the client of v opens a websocket to /bot-viewer: connect_bot_viewer up to its await
VConnect(v) ==
    /\ pc[v] = "idle"
    /\ \A c \in Earlier(v) : pc[c] # "idle"
    /\ pc' = [pc EXCEPT ![v] = "accepting"]
    /\ UNCHANGED <<storeVars, broadcaster, bot_viewers, bot_info, inbox, nrecv,
                   pending, fan, received, stalled, raised, observed>>
    /\ UNCHANGED <<heard, gen>>

\* bot_viewer_endpoint from line 167 on: the join notice, when a broadcaster is in the slot
JoinPending(viewers) ==
    IF broadcaster # None
    THEN [to |-> broadcaster, msg |-> ViewerUpdate(viewers, "join")]
    ELSE NoSend

\* websocket.accept() returns: the viewer is registered and the stream info is being sent
VAcceptDone(v) ==
    /\ pc[v] = "accepting"
    /\ LET c == connect_bot_viewer(bot_viewers, bot_info, v, now)
       IN  /\ bot_viewers' = c.bot_viewers
           /\ bot_info' = c.bot_info
    /\ stream_contexts' = get_context(stream_contexts, "default", now)
    /\ IF stream_contexts'["default"].start_time # 0
       THEN /\ pending' = [pending EXCEPT ![v] =
                    [to |-> v,
                     msg |-> [type |-> "stream_info",
                              title |-> stream_contexts'["default"].title,
                              viewers |-> get_bot_count(bot_viewers'),
                              mood |-> stream_contexts'["default"].mood]]]
            /\ pc' = [pc EXCEPT ![v] = "infosend"]
       ELSE /\ pending' = [pending EXCEPT ![v] = JoinPending(bot_viewers')]
            /\ pc' = [pc EXCEPT ![v] = IF broadcaster # None THEN "joinsend" ELSE "receiving"]
    /\ UNCHANGED <<max_message_history, manager_contexts, now, called, added, broadcaster, inbox, nrecv, fan,
                   received, stalled, raised, observed>>
    /\ UNCHANGED <<heard, gen>>

\* the send_to_bot that opens the endpoint ends, with result "ok" or "error"
VInfoDone(v, result) ==
    /\ pc[v] = "infosend"
    /\ v \notin stalled
    /\ LET r == send_to_bot(bot_viewers, bot_info, v, result)
       IN  /\ bot_viewers' = r.bot_viewers
           /\ bot_info' = r.bot_info
           /\ raised' = IF r.raises THEN raised \cup {"send_to_bot"} ELSE raised
    /\ received' = IF result = "ok" THEN Written(v, pending[v].msg) ELSE received
    /\ pending' = [pending EXCEPT ![v] = JoinPending(bot_viewers')]
    /\ pc' = [pc EXCEPT ![v] = IF broadcaster # None THEN "joinsend" ELSE "receiving"]
    /\ UNCHANGED <<storeVars, broadcaster, inbox, nrecv, fan, stalled, observed>>
    /\ UNCHANGED <<heard, gen>>

\* receive_text returns the text data of v, the max-th at most, and
\* process_bot_message runs up to its await
VReceive(v, data, max) ==
    /\ pc[v] = "receiving"
    /\ nrecv[v] < max
    /\ nrecv' = [nrecv EXCEPT ![v] = @ + 1]
    /\ heard' = [heard EXCEPT ![v] = data]
    /\ LET message_data == ParseBotReaction(data)
       IN  /\ bot_info' = IF message_data.type = "heartbeat"
                          THEN update_bot_info(bot_info, v, message_data.bot_info)
                          ELSE bot_info
           /\ IF message_data.type = "reaction" /\ broadcaster # None
              THEN /\ pending' = [pending EXCEPT ![v] =
                           [to |-> broadcaster, msg |-> ReactionForward(message_data)]]
                   /\ pc' = [pc EXCEPT ![v] = "reactsend"]
                   /\ UNCHANGED <<stream_contexts, gen>>
              ELSE IF message_data.type = "receive_stream_content"
              THEN /\ stream_contexts' =
                           ContextForRequest(stream_contexts, message_data, "default", now)
                   /\ gen' = [gen EXCEPT ![v] =
                           [content |-> message_data.content,
                            bot_info |-> message_data.bot_info,
                            stream_context |-> stream_contexts'["default"],
                            result |-> "<pending>"]]
                   /\ pc' = [pc EXCEPT ![v] = "generating"]
                   /\ UNCHANGED pending
              ELSE UNCHANGED <<pending, pc, stream_contexts, gen>>
    /\ UNCHANGED <<max_message_history, manager_contexts, now, added, called, broadcaster, bot_viewers,
                   inbox, fan, received, stalled, raised, observed>>

\* generate_reaction returns: the response is built and is being sent to the viewer,
\* or building it raises and process_bot_message logs the error and returns
VGenerateDone(v, outcome) ==
    /\ pc[v] = "generating"
    /\ LET ai_reaction == generate_reaction(gen[v].content, gen[v].bot_info,
                                            gen[v].stream_context, outcome)
       IN  /\ gen' = [gen EXCEPT ![v].result = ai_reaction]
           /\ IF ResponseValid(ai_reaction)
              THEN /\ pending' = [pending EXCEPT ![v] =
                           [to |-> v, msg |-> AiResponse(ai_reaction, gen[v].bot_info)]]
                   /\ pc' = [pc EXCEPT ![v] = "aisend"]
              ELSE /\ pc' = [pc EXCEPT ![v] = "receiving"]
                   /\ UNCHANGED pending
    /\ UNCHANGED <<storeVars, broadcaster, bot_viewers, bot_info, inbox, nrecv, fan,
                   received, stalled, heard, raised, observed>>

\* the websocket.send_text of the response ends, with result "ok" or "error": the
\* response is mirrored to the broadcaster in the slot, or the exception is
\* logged by process_bot_message
VAiSendDone(v, result) ==
    /\ pc[v] = "aisend"
    /\ v \notin stalled
    /\ received' = IF result = "ok" THEN Written(v, pending[v].msg) ELSE received
    /\ IF result = "ok" /\ broadcaster # None
       THEN /\ pending' = [pending EXCEPT ![v] =
                    [to |-> broadcaster, msg |-> AiMirror(gen[v].result, gen[v].bot_info)]]
            /\ pc' = [pc EXCEPT ![v] = "mirrorsend"]
       ELSE /\ pending' = [pending EXCEPT ![v] = NoSend]
            /\ pc' = [pc EXCEPT ![v] = "receiving"]
    /\ UNCHANGED <<storeVars, broadcaster, bot_viewers, bot_info, inbox, nrecv, fan,
                   stalled, heard, gen, raised, observed>>

\* receive_text raises WebSocketDisconnect (or another exception): handle_bot_disconnect up to its await
VDisconnect(v) ==
    /\ pc[v] = "receiving"
    /\ LET d == disconnect_bot_viewer(bot_viewers, bot_info, v)
       IN  /\ bot_viewers' = d.bot_viewers
           /\ bot_info' = d.bot_info
           /\ pending' = [pending EXCEPT ![v] =
                    IF broadcaster # None
                    THEN [to |-> broadcaster, msg |-> ViewerUpdate(d.bot_viewers, "leave")]
                    ELSE NoSend]
    /\ pc' = [pc EXCEPT ![v] = IF broadcaster # None THEN "leavesend" ELSE "closed"]
    /\ stalled' = stalled \ {v}
    /\ UNCHANGED <<storeVars, broadcaster, inbox, nrecv, fan, received, raised, observed>>
    /\ UNCHANGED <<heard, gen>>

\* the peer of v stops reading without closing: from now on no send to v ends
Stall(v) ==
    /\ pc[v] \in {"infosend", "joinsend", "receiving", "reactsend"}
    /\ v \notin stalled
    /\ Cardinality(stalled) < MaxStalled
    /\ stalled' = stalled \cup {v}
    /\ UNCHANGED <<storeVars, broadcaster, bot_viewers, bot_info, pc, inbox, nrecv,
                   pending, fan, received, raised, observed>>
    /\ UNCHANGED <<heard, gen>>

\* what the event loop does on its own: every step but the moves of the clients and of the network
ServerNext(Bs, Vs) ==
    \/ \E b \in Bs : BAcceptDone(b)
    \/ \E h \in Bs \cup Vs : SendToBroadcasterDone(h, "ok")
    \/ \E b \in Bs : BReceive(b)
    \/ \E b \in Bs, v \in Vs : BTaskStart(b, v)
    \/ \E b \in Bs, v \in Vs : BTaskDone(b, v, "ok")
    \/ \E v \in Vs : VAcceptDone(v)
    \/ \E v \in Vs : VInfoDone(v, "ok")

\* the close of a refused broadcaster ends
RefuseNext(Bs) == \E b \in Bs : BCloseDone(b)

\* the clients connect, send the texts (max each at most) and leave
ClientNext(Bs, Vs, texts, max) ==
    \/ \E b \in Bs : BConnect(b)
    \/ \E b \in Bs, data \in texts : BClientSend(b, data, max)
    \/ \E b \in Bs : BDisconnect(b)
    \/ \E v \in Vs : VConnect(v)
    \/ \E v \in Vs : VDisconnect(v)

\* a handshake or a send fails
FailNext(Bs, Vs) ==
    \/ \E c \in Bs \cup Vs : AcceptFail(c)
    \/ \E h \in Bs \cup Vs : SendToBroadcasterDone(h, "error")
    \/ \E b \in Bs, v \in Vs : BTaskDone(b, v, "error")
    \/ \E v \in Vs : VInfoDone(v, "error")

\* the messages of the viewers in Vs
ViewerNext(Vs) == \E v \in Vs, data \in ViewerTexts : VReceive(v, data, MaxViewerMsgs)

\* a viewer of Vs stalls
StallNext(Vs) == \E v \in Vs : Stall(v)

\* one broadcaster and every viewer: the fan-out
Next ==
    \/ ServerNext({"b1"}, Viewers)
    \/ ClientNext({"b1"}, Viewers, {PlainText, GetViewersJson}, MaxSends)
    \/ FailNext({"b1"}, Viewers)

Spec == Init /\ [][Next]_vars

\* every broadcaster and one viewer, who sends messages: the broadcaster slot
SlotNext ==
    \/ ServerNext(Broadcasters, {"v1"})
    \/ RefuseNext(Broadcasters)
    \/ ClientNext(Broadcasters, {"v1"}, {PlainText, TitledJson}, MaxSends)
    \/ FailNext(Broadcasters, {"v1"})
    \/ ViewerNext({"v1"})

SlotSpec == SlotInit /\ [][SlotNext]_vars

\* one broadcaster and every viewer, the first of which may stall; no handshake
\* and no send fails.  The event loop runs every coroutine that can run, and a
\* send to a peer that reads ends.
FairNext ==
    \/ ServerNext({"b1"}, Viewers)
    \/ ClientNext({"b1"}, Viewers, {PlainText}, MaxFairSends)
    \/ StallNext({"v1"})

FairSpec == FairInit /\ [][FairNext]_vars /\ WF_vars(ServerNext({"b1"}, Viewers))

StoreNext ==
    \/ Tick
    \/ \E sid \in StoreIds : GetContext(sid)
    \/ \E sid \in StoreIds, title \in Titles : UpdateTitle(sid, title)
    \/ \E sid \in StoreIds : AddMessage(sid)
    \/ \E sid \in StoreIds, count \in 0..MaxViewerArg : UpdateViewers(sid, count)
    \/ \E sid \in StoreIds : ResetContext(sid)
    \/ \E sid \in StoreIds, content \in MoodContents : AnalyzeMood(sid, content)

StoreSpec == Init /\ [][StoreNext]_vars

ConfigSpec == ConfigInit /\ [][StoreNext]_vars

\* the texts of the runs of the router alone: two ties, an excited and a negative one
RouterTexts == {PlainText, TitledJson, "happy but sad", "it was sad and hard"}

\* one broadcaster and no viewer: the router of broadcaster texts into the store
RouterNext ==
    \/ BConnect("b1")
    \/ BAcceptDone("b1")
    \/ SendToBroadcasterDone("b1", "ok")
    \/ \E data \in RouterTexts : BClientSend("b1", data, MaxRouterSends)
    \/ BReceive("b1")

RouterSpec == SlotInit /\ [][RouterNext]_vars

\* one broadcaster that sends several content messages and every viewer; the
\* viewers come and go, no handshake and no send fails
OrderNext ==
    \/ ServerNext({"b1"}, Viewers)
    \/ ClientNext({"b1"}, Viewers, {"so happy", TitledJson}, MaxOrderSends)

OrderSpec == Init /\ [][OrderNext]_vars

\* one broadcaster and every viewer, what the broadcaster is sent; no handshake
\* and no send fails, and the event loop runs every coroutine that can run
NoticeNext ==
    \/ ServerNext({"b1"}, Viewers)
    \/ ClientNext({"b1"}, Viewers, {GetViewersJson, CommandOnlyJson}, MaxSends)

NoticeSpec == NoticeInit /\ [][NoticeNext]_vars /\ WF_vars(ServerNext({"b1"}, Viewers))

\* every broadcaster and one viewer, with failing sends and the get_viewers command: evictions
EvictNext ==
    \/ ServerNext(Broadcasters, {"v1"})
    \/ RefuseNext(Broadcasters)
    \/ ClientNext(Broadcasters, {"v1"}, {PlainText, GetViewersJson}, MaxSends)
    \/ FailNext(Broadcasters, {"v1"})

EvictSpec == SlotInit /\ [][EvictNext]_vars

\* the generator returns and the generated reaction is written to the viewer
GenerateNext(Vs) ==
    \/ \E v \in Vs, outcome \in GeneratedTexts : VGenerateDone(v, outcome)
    \/ \E v \in Vs : VAiSendDone(v, "ok")

\* the generator fails, or the write of the generated reaction does
GenerateFailNext(Vs) ==
    \/ \E v \in Vs : VGenerateDone(v, "error")
    \/ \E v \in Vs : VAiSendDone(v, "error")

ReactInit == InitWith(DefaultMaxMessageHistory, Conns)

\* what the event loop does on its own for connections that send no content message
QuietServerNext(Bs, Vs) ==
    \/ \E b \in Bs : BAcceptDone(b)
    \/ \E h \in Bs \cup Vs : SendToBroadcasterDone(h, "ok")
    \/ \E v \in Vs : VAcceptDone(v)
    \/ \E v \in Vs : VInfoDone(v, "ok")

\* the clients connect and leave; the broadcaster sends nothing
QuietClientNext(Bs, Vs) ==
    \/ \E b \in Bs : BConnect(b)
    \/ \E b \in Bs : BDisconnect(b)
    \/ \E v \in Vs : VConnect(v)
    \/ \E v \in Vs : VDisconnect(v)

\* one broadcaster and two viewers, one of which asks for generated reactions
ReactNext ==
    \/ QuietServerNext({"b1"}, Viewers)
    \/ QuietClientNext({"b1"}, Viewers)
    \/ VReceive("v1", ContentRequestJson, MaxViewerMsgs)
    \/ GenerateNext({"v1"})

ReactSpec ==
    /\ ReactInit
    /\ [][ReactNext]_vars
    /\ WF_vars(QuietServerNext({"b1"}, Viewers) \/ GenerateNext({"v1"}))

\* one broadcaster that sends nothing and two viewers, one of which sends reactions
ForwardNext ==
    \/ QuietServerNext({"b1"}, Viewers)
    \/ QuietClientNext({"b1"}, Viewers)
    \/ \E data \in {ReactionJson, SecondReactionJson} : VReceive("v1", data, MaxReactMsgs)

ForwardSpec ==
    /\ ReactInit
    /\ [][ForwardNext]_vars
    /\ WF_vars(QuietServerNext({"b1"}, Viewers))

\* the stream ids of the runs about two streams
IsoIds == {"default", "b1"}

\* the store operations applied to two streams
IsoNext ==
    \/ \E sid \in IsoIds : GetContext(sid)
    \/ \E sid \in IsoIds : UpdateTitle(sid, "New Episode")
    \/ \E sid \in IsoIds : Len(LogOf(sid)) < MaxIsoMessages /\ AddMessage(sid)
    \/ \E sid \in IsoIds : UpdateViewers(sid, MaxViewerArg)
    \/ \E sid \in IsoIds : ResetContext(sid)
    \/ \E sid \in IsoIds : AnalyzeMood(sid, "so happy")

IsoSpec == Init /\ [][IsoNext]_vars

\* the same call, with the same arguments and at the same time, made on the
\* StreamContextService and on the StreamContextManager
TwinGetContext(sid) ==
    /\ stream_contexts' = get_context(stream_contexts, sid, now)
    /\ manager_contexts' = manager_get_context(manager_contexts, sid, now)
    /\ added' = AddedAfter(stream_contexts', sid, LogOf(sid))
    /\ called' = Called("get_context", sid)
    /\ UNCHANGED <<max_message_history, now>>
    /\ UNCHANGED regVars

TwinUpdateTitle(sid, title) ==
    /\ stream_contexts' = update_title(stream_contexts, title, sid, now)
    /\ manager_contexts' = manager_update_title(manager_contexts, title, sid, now)
    /\ added' = AddedAfter(stream_contexts', sid, LogOf(sid))
    /\ called' = Called("update_title", sid)
    /\ UNCHANGED <<max_message_history, now>>
    /\ UNCHANGED regVars

TwinAddMessage(sid) ==
    /\ Len(LogOf(sid)) < MaxMessages
    /\ LET message == MsgNames[Len(LogOf(sid)) + 1]
       IN  /\ stream_contexts' = add_message(stream_contexts, message, sid, now)
           /\ manager_contexts' = manager_add_message(manager_contexts, message, sid, now)
           /\ added' = AddedAfter(stream_contexts', sid, Append(LogOf(sid), message))
    /\ called' = Called("add_message", sid)
    /\ UNCHANGED <<max_message_history, now>>
    /\ UNCHANGED regVars

TwinUpdateViewers(sid, count) ==
    /\ stream_contexts' = update_viewers(stream_contexts, count, sid, now)
    /\ manager_contexts' = manager_update_viewers(manager_contexts, count, sid, now)
    /\ added' = AddedAfter(stream_contexts', sid, LogOf(sid))
    /\ called' = Called("update_viewers", sid)
    /\ UNCHANGED <<max_message_history, now>>
    /\ UNCHANGED regVars

TwinResetContext(sid) ==
    /\ stream_contexts' = reset_context(stream_contexts, sid, now)
    /\ manager_contexts' = manager_reset_context(manager_contexts, sid, now)
    /\ added' = AddedAfter(stream_contexts', sid, <<>>)
    /\ called' = Called("reset_context", sid)
    /\ UNCHANGED <<max_message_history, now>>
    /\ UNCHANGED regVars

TwinAnalyzeMood(sid, content) ==
    /\ stream_contexts' = analyze_mood(stream_contexts, content, sid, now)
    /\ manager_contexts' = manager_analyze_mood(manager_contexts, content, sid, now)
    /\ added' = AddedAfter(stream_contexts', sid, LogOf(sid))
    /\ called' = Called("analyze_mood", sid)
    /\ UNCHANGED <<max_message_history, now>>
    /\ UNCHANGED regVars

\* every sequence of calls made on both stores
TwinNext ==
    \/ Tick
    \/ \E sid \in StoreIds : TwinGetContext(sid)
    \/ \E sid \in StoreIds, title \in Titles : TwinUpdateTitle(sid, title)
    \/ \E sid \in StoreIds : TwinAddMessage(sid)
    \/ \E sid \in StoreIds, count \in 0..MaxViewerArg : TwinUpdateViewers(sid, count)
    \/ \E sid \in StoreIds : TwinResetContext(sid)
    \/ \E sid \in StoreIds, content \in MoodContents : TwinAnalyzeMood(sid, content)

TwinSpec == Init /\ [][TwinNext]_vars

\* one broadcaster whose content messages may carry a command, and every viewer
CommandNext ==
    \/ ServerNext({"b1"}, Viewers)
    \/ ClientNext({"b1"}, Viewers, {PlainText, OtherCommandJson}, MaxSends)

CommandSpec == SlotInit /\ [][CommandNext]_vars

\* one broadcaster, some of whose messages make the processing raise, and every viewer
ErrorNext ==
    \/ ServerNext({"b1"}, Viewers)
    \/ ClientNext({"b1"}, Viewers, {PlainText, NumberTitleJson}, MaxSends)

ErrorSpec == SlotInit /\ [][ErrorNext]_vars

\* one broadcaster and every viewer, with heartbeats and with failing handshakes and sends
ProfileNext ==
    \/ ServerNext({"b1"}, Viewers)
    \/ ClientNext({"b1"}, Viewers, {PlainText}, MaxSends)
    \/ FailNext({"b1"}, Viewers)
    \/ \E v \in Viewers : VReceive(v, HeartbeatJson, MaxViewerMsgs)

ProfileSpec == SlotInit /\ [][ProfileNext]_vars

\* every kind of text a viewer can send
GateTexts == {HeartbeatJson, ReactionJson, ContentRequestJson, UnknownTypeJson, NotJson}

GateInit == InitWith(DefaultMaxMessageHistory, {"v2"})

\* a broadcaster that sends content and two viewers, one of which sends every kind of text
GateNext ==
    \/ ServerNext({"b1"}, Viewers)
    \/ ClientNext({"b1"}, Viewers, {TitledJson}, MaxSends)
    \/ \E data \in GateTexts : VReceive("v1", data, MaxViewerMsgs)
    \/ GenerateNext({"v1"})

GateSpec == GateInit /\ [][GateNext]_vars

GenFailInit == InitWith(DefaultMaxMessageHistory, {"v1"})

\* a broadcaster that sends content and viewers, one of which asks for generated
\* reactions; the generator and the write of the generated reaction can fail
GenFailNext ==
    \/ ServerNext({"b1"}, Viewers)
    \/ ClientNext({"b1"}, Viewers, {TitledJson}, MaxSends)
    \/ VReceive("v1", ContentRequestJson, MaxViewerMsgs)
    \/ GenerateNext({"v1"})
    \/ GenerateFailNext({"v1"})

GenFailSpec == GenFailInit /\ [][GenFailNext]_vars

(***************************************************************************)
(* Claims about the stream context store.                                  *)
(***************************************************************************)
HistoryOf(sid) == stream_contexts[sid].previous_messages

Min(a, b) == IF a < b THEN a ELSE b

\* the last n elements of a sequence, in order
LastN(s, n) == SubSeq(s, Len(s) - Min(n, Len(s)) + 1, Len(s))

\* C7: in every reachable state the history of every stream holds at most
\* max_message_history entries, the capacity the service was constructed with.
C7_HistoryWithinConfiguredCapacity ==
    \A sid \in DOMAIN stream_contexts : Len(HistoryOf(sid)) <= max_message_history

\* C8: the history of every stream is the last min(m, N) of the m messages added
\* since its creation or last reset, oldest first, N being the configured capacity.
C8_HistoryIsLastNAdded ==
    \A sid \in DOMAIN stream_contexts :
        HistoryOf(sid) = LastN(added[sid], max_message_history)

\* the whitespace-delimited words of cs, stated by position: a run of
\* non-whitespace characters that no non-whitespace character borders
WordsOf(cs) ==
    {SubSeq(cs, i, j) : <<i, j>> \in
        {p \in (1..Len(cs)) \X (1..Len(cs)) :
            /\ p[1] <= p[2]
            /\ \A k \in p[1]..p[2] : cs[k] \notin Whitespace
            /\ (p[1] = 1 \/ cs[p[1] - 1] \in Whitespace)
            /\ (p[2] = Len(cs) \/ cs[p[2] + 1] \in Whitespace)}}

TitleTopics(title) == {Lower(w) : w \in {x \in WordsOf(Chars(title)) : Len(x) > 2}}

\* TitleTopics, tabulated once for the titles of the model
TitleTopicsOf == [title \in Titles |-> TitleTopics(title)]

TopicsBefore(sid) ==
    IF sid \in DOMAIN stream_contexts THEN stream_contexts[sid].topics ELSE {}

\* C9: update_title leaves as topics the old topics united with the lower-cased
\* whitespace-delimited words of the new title longer than 2 characters, and no
\* step other than a reset removes a topic from any stream.
C9_TopicAccretion ==
    [][/\ \A sid \in StoreIds, title \in Titles :
            UpdateTitle(sid, title) =>
                stream_contexts'[sid].topics = TopicsBefore(sid) \cup TitleTopicsOf[title]
       /\ (~ \E sid \in StoreIds : ResetContext(sid)) =>
            \A sid \in DOMAIN stream_contexts :
                /\ sid \in DOMAIN stream_contexts'
                /\ stream_contexts[sid].topics \subseteq stream_contexts'[sid].topics
      ]_vars

\* "Hello World Stream" then "New Episode": all five topics are present
C9_Witness ==
    /\ "b1" \in DOMAIN stream_contexts
    /\ stream_contexts["b1"].title = "New Episode"
    /\ {Chars("hello"), Chars("world"), Chars("stream"), Chars("new"), Chars("episode")}
            \subseteq stream_contexts["b1"].topics

\* C10: whatever the prior mood and the message count, analyze_mood leaves the
\* mood excited when the text holds an excited word, else positive when it holds
\* more positive than negative words, else negative when it holds more negative
\* than positive words; "this is amazing" is excited, "it was sad and hard" negative.
C10_MoodRuleNonTie ==
    [][\A sid \in StoreIds, content \in MoodContents :
            AnalyzeMood(sid, content) =>
                LET e == Counts[content].excited
                    p == Counts[content].positive
                    n == Counts[content].negative
                    m == stream_contexts'[sid].mood
                IN  /\ e > 0 => m = "excited"
                    /\ (e = 0 /\ p > n) => m = "positive"
                    /\ (e = 0 /\ n > p) => m = "negative"
                    /\ content = "this is amazing" => m = "excited"
                    /\ content = "it was sad and hard" => m = "negative"
      ]_vars

\* a stream that was excited by a text holding negative words too, between two resets to neutral
C10_Witness ==
    /\ "b1" \in DOMAIN stream_contexts
    /\ stream_contexts["b1"].mood = "excited"
    /\ stream_contexts["b1"].message_count = 3

(***************************************************************************)
(* Claims about the connection registry.                                   *)
(***************************************************************************)
\* what a refused broadcaster must leave alone
Registry == <<broadcaster, bot_viewers, bot_info, stream_contexts>>

\* C1: whatever the interleaving of the connect_broadcaster calls, a call is
\* accepted (accept() returns and the endpoint goes on as the broadcaster) only
\* while no broadcaster holds the slot: a second attempt made while the first is
\* connected or connecting is not accepted before a disconnect_broadcaster.
C1_SingleBroadcaster ==
    [][\A b \in Broadcasters :
            (pc[b] = "accepting" /\ pc'[b] = "greeting") => broadcaster = None
      ]_vars

\* two broadcasters are past accept(), and no disconnect has happened in between
C1_TwoAccepted ==
    /\ pc["b1"] = "greeting"
    /\ pc["b2"] = "greeting"

\* C2: a connect_broadcaster call made while a broadcaster B is in the slot is
\* refused: it closes its socket, returns False, and from the call to the end of
\* its endpoint the slot, the viewer list, the profile map and the stream contexts
\* are as they were; the endpoint then returns, so that it never gets to
\* reset_context or to disconnect_broadcaster, and no context exists for it.
C2_RejectedChangesNothing ==
    [][\A b \in Broadcasters :
            /\ (pc[b] = "idle" /\ pc'[b] # "idle" /\ broadcaster # None) =>
                    /\ pc'[b] = "closing"
                    /\ Registry' = Registry
            /\ pc[b] = "closing" =>
                    /\ pc'[b] \in {"closing", "rejected"}
                    /\ pc'[b] = "rejected" => Registry' = Registry
            /\ pc[b] = "rejected" =>
                    /\ pc'[b] = "rejected"
                    /\ b \notin DOMAIN stream_contexts'
      ]_vars

\* b2 was refused while b1 held the slot and v1 was registered
C2_Witness ==
    /\ pc["b2"] = "rejected"
    /\ broadcaster = "b1"
    /\ bot_viewers = <<"v1">>
    /\ "v1" \in DOMAIN bot_info
    /\ "b1" \in DOMAIN stream_contexts

\* how many times the stream_content message of the call id was written to the socket of v
Deliveries(v, id) ==
    Cardinality({i \in 1..Len(received[v]) :
                    /\ received[v][i].type = "stream_content"
                    /\ received[v][i].call = id})

CallEnded(b) == fan[b] # NoFan /\ pc[b] # "broadcasting"

\* C3: for every broadcast_to_bots call, no viewer of the list the call started
\* with is written the message twice, and once the call has returned every such
\* viewer whose send did not fail has been written it exactly once, whichever
\* sends failed.
C3_FanOutDelivery ==
    \A b \in Broadcasters :
        fan[b] # NoFan =>
            \A v \in Range(fan[b].at_start) :
                /\ Deliveries(v, fan[b].id) <= 1
                /\ (CallEnded(b) /\ fan[b].tasks[v] # "failed") =>
                        Deliveries(v, fan[b].id) = 1

\* a call has returned in which the send to v1 failed and v2 was written the message
C3_Witness ==
    /\ CallEnded("b1")
    /\ fan["b1"].at_start = <<"v1", "v2">>
    /\ fan["b1"].tasks["v1"] = "failed"
    /\ fan["b1"].tasks["v2"] = "ok"
    /\ Deliveries("v2", fan["b1"].id) = 1
    /\ Deliveries("v1", fan["b1"].id) = 0

\* C4: a send of broadcast_to_bots that fails removes that viewer, and no other,
\* from the viewer list and the profile map; a send that succeeds removes nobody;
\* once the call has returned no viewer whose send failed is in either.
C4_FanOutEviction ==
    /\ [](\A b \in Broadcasters :
            CallEnded(b) =>
                \A v \in DOMAIN fan[b].tasks :
                    fan[b].tasks[v] = "failed" =>
                        v \notin Range(bot_viewers) /\ v \notin DOMAIN bot_info)
    /\ [][\A b \in Broadcasters, v \in Viewers :
            (/\ pc[b] = "broadcasting"
             /\ v \in DOMAIN fan[b].tasks
             /\ fan[b].tasks[v] = "sending"
             /\ fan'[b].tasks[v] # "sending") =>
                IF fan'[b].tasks[v] = "failed"
                THEN /\ Range(bot_viewers') = Range(bot_viewers) \ {v}
                     /\ Len(bot_viewers') = Cardinality(Range(bot_viewers'))
                     /\ DOMAIN bot_info' = (DOMAIN bot_info) \ {v}
                     /\ \A w \in DOMAIN bot_info' : bot_info'[w] = bot_info[w]
                ELSE /\ bot_viewers' = bot_viewers
                     /\ bot_info' = bot_info
         ]_vars

\* a call has returned in which the send to v2 failed: v1 alone is left
C4_Witness ==
    /\ CallEnded("b1")
    /\ fan["b1"].tasks = [v \in Viewers |-> IF v = "v2" THEN "failed" ELSE "ok"]
    /\ bot_viewers = <<"v1">>
    /\ DOMAIN bot_info = {"v1"}

\* the text k of b waits in the receive buffer of b
Waiting(b, k) == nrecv[b] < k /\ k <= nrecv[b] + Len(inbox[b])

\* the text k of b is being fanned out to a list that holds v
FanningOutTo(b, k, v) ==
    /\ pc[b] = "broadcasting"
    /\ fan[b].id = <<b, k>>
    /\ v \in Range(fan[b].at_start)

\* C5: while the send to a stalled viewer never ends, every other connected
\* viewer is eventually written the content message being fanned out and every
\* content message the broadcaster has sent after it, unless that viewer leaves
\* or the broadcaster closes.
C5_StalledViewerDelaysOnlyItself ==
    \A k \in 1..MaxFairSends :
        (/\ "v2" \in Range(bot_viewers)
         /\ Waiting("b1", k) \/ FanningOutTo("b1", k, "v2"))
            ~> \/ Deliveries("v2", <<"b1", k>>) = 1
               \/ "v2" \notin Range(bot_viewers)
               \/ pc["b1"] = "closed"

\* v2 has the first message and v1, stalled, holds the gather while the second message waits
C5_Blocked ==
    /\ pc["b1"] = "broadcasting"
    /\ "v1" \in stalled
    /\ fan["b1"].tasks = [v \in Viewers |-> IF v = "v1" THEN "sending" ELSE "ok"]
    /\ Deliveries("v2", fan["b1"].id) = 1
    /\ inbox["b1"] # <<>>
    /\ "v2" \in Range(bot_viewers)

\* C6: no send_to_bot, broadcast_to_bots or send_to_broadcaster raises to its
\* caller, whether the send fails or the peer is absent.
C6_DeliveryNeverRaises == raised = {}

\* a send to a viewer has failed in a fan-out and a send to the broadcaster has
\* failed, which emptied the slot; the endpoint of b1 is back in its receive loop
C6_Witness ==
    /\ pc["b1"] = "receiving"
    /\ CallEnded("b1")
    /\ "failed" \in Range(fan["b1"].tasks)
    /\ broadcaster = None

(***************************************************************************)
(* Claims about the router and the store.                                  *)
(***************************************************************************)
\* the endpoint of b takes a text from its receive buffer in this step
Receives(b) == pc[b] = "receiving" /\ nrecv'[b] = nrecv[b] + 1

Tie(content) ==
    /\ Counts[content].excited = 0
    /\ Counts[content].positive = Counts[content].negative

\* C11: when the router handles a content message whose text is a tie (as many
\* positive as negative words, no excited word), the mood stays what it was
\* unless the message count, taken after the increment add_message has just
\* made for that text, is a multiple of 5, and then it becomes neutral: the
\* 5th, 10th, ... content message of a stream is the one that decays the mood.
C11_MoodHysteresis ==
    [][Receives("b1") =>
            LET content == ParseStreamContent(Head(inbox["b1"])).content
                old == stream_contexts["b1"]
                new == stream_contexts'["b1"]
            IN  /\ new.message_count = old.message_count + 1
                /\ Tie(content) =>
                        new.mood = IF (old.message_count + 1) % 5 = 0
                                   THEN "neutral" ELSE old.mood
      ]_vars

\* an excited message, three ties that leave the mood excited, a fifth tie that resets it
C11_Witness ==
    /\ "b1" \in DOMAIN stream_contexts
    /\ stream_contexts["b1"].previous_messages =
            <<"this is amazing", "happy but sad", PlainText, PlainText, "happy but sad">>
    /\ stream_contexts["b1"].message_count = 5
    /\ stream_contexts["b1"].mood = "neutral"

\* every field of a context just made at time t, written out
DefaultsAt(t) ==
    [title |-> "Test Stream", start_time |-> t, duration |-> 0, topics |-> {},
     mood |-> "neutral", previous_messages |-> <<>>, viewers |-> 0,
     broadcaster_info |-> <<>>, message_count |-> 0]

\* a context without its times
Timeless(ctx) == [ctx EXCEPT !.start_time = 0, !.duration = 0]

\* C12: reset_context(id) leaves under id a context whose every field has its
\* default, whatever was there before, keeps id and every other id in the store
\* and touches no other context; a reset that follows a reset leaves a context
\* that differs from the one it found by its times at most.
C12_ResetReinitializesAll ==
    [][\A sid \in StoreIds :
            ResetContext(sid) =>
                /\ sid \in DOMAIN stream_contexts'
                /\ stream_contexts'[sid] = DefaultsAt(now)
                /\ \A other \in (DOMAIN stream_contexts) \ {sid} :
                        /\ other \in DOMAIN stream_contexts'
                        /\ stream_contexts'[other] = stream_contexts[other]
                /\ (called.op = "reset_context" /\ sid \in DOMAIN stream_contexts) =>
                        Timeless(stream_contexts'[sid]) = Timeless(stream_contexts[sid])
      ]_vars

\* a reset has just run, at the last tick of the clock, on a context of which no field had its default
C12_Witness ==
    /\ called = [op |-> "reset_context", dirty |-> TRUE]
    /\ "b1" \in DOMAIN stream_contexts
    /\ stream_contexts["b1"] = DefaultsAt(MaxTime)

\* a context without its duration
Durationless(ctx) == [ctx EXCEPT !.duration = 0]

\* C13: get_context(id) on an id the store does not hold creates under id one
\* context with default fields; on an id it holds it leaves that context as it
\* is but for duration; either way it touches no other context, and no step of
\* any operation removes an id from the store.
C13_GetOrCreate ==
    [][/\ \A sid \in StoreIds :
            GetContext(sid) =>
                /\ sid \in DOMAIN stream_contexts'
                /\ IF sid \in DOMAIN stream_contexts
                   THEN /\ Durationless(stream_contexts'[sid]) =
                                Durationless(stream_contexts[sid])
                        /\ stream_contexts'[sid].duration =
                                now - stream_contexts[sid].start_time
                   ELSE stream_contexts'[sid] = DefaultsAt(now)
                /\ DOMAIN stream_contexts' = (DOMAIN stream_contexts) \cup {sid}
                /\ \A other \in (DOMAIN stream_contexts) \ {sid} :
                        stream_contexts'[other] = stream_contexts[other]
       /\ DOMAIN stream_contexts \subseteq DOMAIN stream_contexts'
      ]_vars

\* get_context has just run on a context of which no field had its default: it
\* is as it was, with the duration of the clock
C13_Witness ==
    /\ called = [op |-> "get_context", dirty |-> TRUE]
    /\ Dirty("b1")
    /\ stream_contexts["b1"].start_time = 1
    /\ stream_contexts["b1"].duration = 1
    /\ stream_contexts["b1"].message_count = 2

\* C14: in every state the message_count of a stream is the number of
\* add_message calls made on it since it was created or last reset, and a step
\* lowers it only when the step is a reset_context of that stream.
C14_MessageCountCountsAdds ==
    /\ [](\A sid \in DOMAIN stream_contexts :
            stream_contexts[sid].message_count = Len(added[sid]))
    /\ [][\A sid \in DOMAIN stream_contexts :
            (/\ sid \in DOMAIN stream_contexts'
             /\ stream_contexts'[sid].message_count < stream_contexts[sid].message_count)
                => (sid \in StoreIds /\ ResetContext(sid))
         ]_vars

\* twelve messages were added to one stream: its history holds ten, its count is twelve
C14_Witness ==
    /\ "b1" \in DOMAIN stream_contexts
    /\ called.op = "add_message"
    /\ Len(added["b1"]) = 12
    /\ Len(stream_contexts["b1"].previous_messages) = 10
    /\ stream_contexts["b1"].message_count = 12

(***************************************************************************)
(* Claims about what the endpoints send.                                   *)
(***************************************************************************)
\* the positions of the stream_content messages written to the socket of v
ContentAt(v) == {i \in 1..Len(received[v]) : received[v][i].type = "stream_content"}

\* C15: the stream_content messages written to the socket of a viewer come in
\* the order in which the server received the content messages of the
\* broadcaster connection, and each carries the one content that was received
\* at its place: the k-th delivery of the connection carries the k-th content.
C15_FanOutOrdering ==
    \A v \in Viewers :
        /\ \A i, j \in ContentAt(v) :
                i < j => received[v][i].call[2] < received[v][j].call[2]
        /\ \A i \in ContentAt(v) :
                /\ received[v][i].call[1] = "b1"
                /\ received[v][i].call[2] \in 1..Len(added["b1"])
                /\ received[v][i].content = added["b1"][received[v][i].call[2]]

\* v1 was written the plain text and then the content of the JSON message, in the order received
C15_Witness ==
    /\ ContentAt("v1") # {}
    /\ LET i == CHOOSE k \in ContentAt("v1") : \A l \in ContentAt("v1") : k <= l
           j == CHOOSE k \in ContentAt("v1") : \A l \in ContentAt("v1") : k >= l
       IN  /\ i < j
           /\ received["v1"][i].content = "so happy"
           /\ received["v1"][j].content = "this is amazing"
    /\ added["b1"] = <<"so happy", "this is amazing">>

\* the stream_content message written to the socket of v in this step, if any
Delivered(v) ==
    /\ Len(received'[v]) = Len(received[v]) + 1
    /\ received'[v][Len(received'[v])].type = "stream_content"

\* C16: every stream_content message written to the socket of a viewer carries
\* as viewers the length of the viewer list at the moment its fan-out started,
\* whatever the viewer list has become since; with two viewers connected both
\* are written viewers = 2.
C16_ViewersAtFanOutStart ==
    [][\A v \in Viewers :
            Delivered(v) =>
                /\ fan["b1"].id = received'[v][Len(received'[v])].call
                /\ received'[v][Len(received'[v])].viewers = Len(fan["b1"].at_start)
                /\ received'[v][Len(received'[v])].viewers = Cardinality(DOMAIN fan["b1"].tasks)
      ]_vars

\* both viewers were written a message that says 2, and one of them has left since
C16_Witness ==
    /\ \E i \in ContentAt("v1"), j \in ContentAt("v2") :
            /\ received["v1"][i].call = received["v2"][j].call
            /\ received["v1"][i].viewers = 2
            /\ received["v2"][j].viewers = 2
    /\ Len(bot_viewers) = 1

\* the endpoint of v finds its connection closed in this step
Leaves(v) == pc[v] = "receiving" /\ pc'[v] \in {"leavesend", "closed"}

LeaveNotice(n) == [type |-> "viewer_update", count |-> n, event |-> "leave"]

\* C17: when the endpoint of a viewer finds its connection closed while a
\* broadcaster is in the slot, the viewer is removed and a viewer_update with
\* event leave and the length of the viewer list after the removal is sent to
\* that broadcaster; the broadcaster is written it unless it has closed.
C17_LeaveNotice ==
    /\ [][\A v \in Viewers :
            (Leaves(v) /\ broadcaster # None) =>
                /\ v \notin Range(bot_viewers')
                /\ pc'[v] = "leavesend"
                /\ pending'[v] = [to |-> broadcaster, msg |-> LeaveNotice(Len(bot_viewers'))]
         ]_vars
    /\ \A n \in 0..(Cardinality(Viewers) - 1) :
            (\E v \in Viewers :
                /\ pc[v] = "leavesend"
                /\ pending[v] = [to |-> "b1", msg |-> LeaveNotice(n)])
                ~> \/ \E i \in 1..Len(received["b1"]) : received["b1"][i] = LeaveNotice(n)
                   \/ pc["b1"] = "closed"

\* v1 has left while b1 and v2 were connected: b1 was written leave with count 1
C17_Witness ==
    /\ pc["v1"] = "closed"
    /\ pc["b1"] = "receiving"
    /\ broadcaster = "b1"
    /\ bot_viewers = <<"v2">>
    /\ received["b1"] # <<>>
    /\ received["b1"][Len(received["b1"])] = LeaveNotice(1)

GetViewersTexts == {GetViewersJson, CommandOnlyJson}

\* C18: a get_viewers command of the broadcaster, written with a content field
\* or, as the test client writes it, with the command field alone, is handled
\* as a command: nothing is added to the stream, nothing is fanned out, and a
\* system_info with the current length of the viewer list is sent to the broadcaster.
C18_GetViewersAnswered ==
    [][(Receives("b1") /\ Head(inbox["b1"]) \in GetViewersTexts /\ broadcaster # None) =>
            /\ stream_contexts' = stream_contexts
            /\ added' = added
            /\ fan' = fan
            /\ pc'["b1"] = "replying"
            /\ pending'["b1"] = [to |-> broadcaster, msg |-> SystemMessage(bot_viewers)]
      ]_vars

\* the command with the command field alone was added to the stream as a content message
C18_CommandTakenAsContent ==
    /\ "b1" \in DOMAIN stream_contexts
    /\ stream_contexts["b1"].previous_messages = <<CommandOnlyJson>>
    /\ received["b1"] = <<[type |-> "system_info", count |-> 0]>>
    /\ pc["b1"] = "receiving"

\* C19: a text of the broadcaster that is no JSON is handled as a content
\* message whose content is the text as it came: it is appended to the history
\* of the stream, counted, its mood is analyzed ("so happy" leaves the mood
\* positive), and a send of it is started to every viewer of the viewer list.
C19_UnparseableIsContent ==
    [][(Receives("b1") /\ ~ JsonOf(Head(inbox["b1"])).ok) =>
            LET data == Head(inbox["b1"])
                old  == stream_contexts["b1"]
                new  == stream_contexts'["b1"]
            IN  /\ added'["b1"] = Append(added["b1"], data)
                /\ new.previous_messages # <<>>
                /\ new.previous_messages[Len(new.previous_messages)] = data
                /\ new.message_count = old.message_count + 1
                /\ data = "so happy" => new.mood = "positive"
                /\ bot_viewers # <<>> =>
                        /\ pc'["b1"] = "broadcasting"
                        /\ fan'["b1"].at_start = bot_viewers
                        /\ DOMAIN fan'["b1"].tasks = Range(bot_viewers)
                        /\ fan'["b1"].msg.type = "stream_content"
                        /\ fan'["b1"].msg.content = data
      ]_vars

\* "so happy" came first: it is the history of the stream, and both viewers were written it
C19_Witness ==
    /\ "b1" \in DOMAIN stream_contexts
    /\ stream_contexts["b1"].previous_messages = <<"so happy">>
    /\ stream_contexts["b1"].message_count = 1
    /\ stream_contexts["b1"].mood = "positive"
    /\ \A v \in Viewers :
            \E i \in ContentAt(v) : received[v][i].content = "so happy"

\* the endpoint of v takes a text from its socket in this step
Hears(v) == pc[v] = "receiving" /\ nrecv'[v] = nrecv[v] + 1

\* C20: a text of a viewer that is no valid message changes nothing: the
\* viewer list, the profiles, the stream contexts and the slot are as they
\* were, no send is started to the broadcaster or to a viewer, and the endpoint
\* of the viewer goes on receiving.
C20_UnparseableViewerTextIsNoOp ==
    [][\A v \in Viewers :
            (Hears(v) /\ ~ BotJsonOf(heard'[v]).ok) =>
                /\ bot_viewers' = bot_viewers
                /\ bot_info' = bot_info
                /\ stream_contexts' = stream_contexts
                /\ broadcaster' = broadcaster
                /\ pending' = pending
                /\ fan' = fan
                /\ received' = received
                /\ pc' = pc
      ]_vars

\* v1, registered with b1 in the slot, has sent a text that is no JSON and is receiving
C20_Witness ==
    /\ heard["v1"] = NotJson
    /\ pc["v1"] = "receiving"
    /\ broadcaster = "b1"
    /\ bot_viewers = <<"v1">>
    /\ "v1" \in DOMAIN bot_info
    /\ DOMAIN bot_info["v1"] = {"connected_at"}

(***************************************************************************)
(* Claims about evictions and the life of a connection.                    *)
(***************************************************************************)
\* the send_to_broadcaster the coroutine of h is suspended in ends in this step
BroadcasterSendEnds(h) ==
    /\ pending[h] # NoSend
    /\ pending[h].to \in Broadcasters
    /\ pending'[h] = NoSend

\* send_to_broadcaster is called with the slot empty in this step: the
\* get_viewers command of a broadcaster that is no longer in the slot
CalledOnEmptySlot(b) ==
    /\ Receives(b)
    /\ Head(inbox[b]) = GetViewersJson
    /\ broadcaster = None

\* C21: send_to_broadcaster with the slot empty changes nothing and sends
\* nothing; a send to the broadcaster that fails leaves the slot as it is
\* unless the slot holds the connection the send was written to, and then it
\* empties the slot: no other connection is evicted.
C21_FailedSendEvictsItsTarget ==
    [][/\ \A b \in Broadcasters : CalledOnEmptySlot(b) =>
              /\ broadcaster' = broadcaster
              /\ pending' = pending
              /\ received' = received
              /\ raised' = raised
              /\ pc'[b] = "receiving"
       /\ \A h \in Conns : (BroadcasterSendEnds(h) /\ broadcaster' # broadcaster) =>
              /\ broadcaster = pending[h].to
              /\ broadcaster' = None
      ]_vars

\* the no-op half of C21 alone
C21_EmptySlotNoOp ==
    [][\A b \in Broadcasters : CalledOnEmptySlot(b) =>
              /\ broadcaster' = broadcaster
              /\ pending' = pending
              /\ received' = received
              /\ raised' = raised
              /\ pc'[b] = "receiving"
      ]_vars

\* a send to b1 is in flight while b2 holds the slot
C21_SendToFormerBroadcaster ==
    \E h \in Conns :
        /\ pending[h] # NoSend
        /\ pending[h].to = "b1"
        /\ broadcaster = "b2"

\* the handler of broadcaster b ends in this step: disconnect_broadcaster is called
Ends(b) == pc[b] = "receiving" /\ pc'[b] = "closed"

\* C22: disconnect_bot_viewer of a connection leaves it in neither the viewer
\* list nor the profile map; called for a connection that is in neither (a
\* second call included) it leaves the registry as it is, and calling it again
\* on its own result changes nothing; disconnect_broadcaster on an empty slot
\* leaves the slot empty.
C22_DisconnectIdempotent ==
    [][/\ \A v \in Viewers : Leaves(v) =>
              /\ v \notin Range(bot_viewers')
              /\ v \notin DOMAIN bot_info'
              /\ (v \notin Range(bot_viewers) /\ v \notin DOMAIN bot_info) =>
                      Registry' = Registry
              /\ disconnect_bot_viewer(bot_viewers', bot_info', v) =
                      [bot_viewers |-> bot_viewers', bot_info |-> bot_info']
       /\ \A b \in Broadcasters : (Ends(b) /\ broadcaster = None) => Registry' = Registry
      ]_vars

\* v1 was evicted by a failed send of a fan-out and then its handler disconnected it
\* again, with v2 still registered
C22_Witness ==
    /\ pc["v1"] = "closed"
    /\ "v1" \in DOMAIN fan["b1"].tasks
    /\ fan["b1"].tasks["v1"] = "failed"
    /\ "v2" \in Range(bot_viewers)

\* a send_to_bot task of the fan-out of b starts its bot.send_text to v in this step
StartsSendTo(b, v) ==
    /\ v \in DOMAIN fan[b].tasks
    /\ fan[b].tasks[v] = "ready"
    /\ v \in DOMAIN fan'[b].tasks
    /\ fan'[b].tasks[v] = "sending"

\* C23: no send of a fan-out is started to a viewer that is not in the viewer
\* list when the send starts, the sends of a fan-out that was already in
\* progress when the viewer was removed included.
C23_NoSendAfterRemoval ==
    [][\A b \in Broadcasters, v \in Viewers :
            StartsSendTo(b, v) => v \in Range(bot_viewers)]_vars

\* a fan-out holds a task for v1 that has not started, and v1's handler has removed v1
C23_RemovedBeforeTaskStart ==
    /\ pc["b1"] = "broadcasting"
    /\ "v1" \in DOMAIN fan["b1"].tasks
    /\ fan["b1"].tasks["v1"] = "ready"
    /\ "v1" \notin Range(bot_viewers)
    /\ pc["v1"] \in {"leavesend", "closed"}

\* the stage of life of a connection: pending until its handshake has ended,
\* closed once its endpoint has returned or raised, active in between
Stage(c) ==
    IF pc[c] \in {"idle", "accepting", "closing"} THEN 0
    ELSE IF pc[c] \in {"rejected", "closed"} THEN 2
    ELSE 1

\* C26: a connection goes from pending to active to closed and never back;
\* once the handler of a viewer has ended the viewer is in neither the viewer
\* list nor the profile map, for good; once the handler of a broadcaster has
\* ended that broadcaster is not in the slot.
C26_Lifecycle ==
    /\ [][\A c \in Conns : Stage(c)' >= Stage(c)]_vars
    /\ [](\A v \in Viewers : Stage(v) = 2 =>
                v \notin Range(bot_viewers) /\ v \notin DOMAIN bot_info)
    /\ [](\A b \in Broadcasters : Stage(b) = 2 => broadcaster # b)

\* b1 held the slot and fanned a message out to v1; both handlers have ended
\* and b2 holds the slot
C26_Witness ==
    /\ pc["b1"] = "closed"
    /\ pc["v1"] = "closed"
    /\ "v1" \in DOMAIN fan["b1"].tasks
    /\ broadcaster = "b2"

(***************************************************************************)
(* Claims about the messages of the viewers.                               *)
(***************************************************************************)
\* process_bot_message calls generate_reaction for v in this step
Requests(v) == Hears(v) /\ pc'[v] = "generating"

\* C24: the context handed to generate_reaction for a viewer's
\* receive_stream_content request is the context of the stream of the
\* broadcaster in the slot: once that broadcaster has sent content messages,
\* the context handed over has the title and the history those messages have
\* left in the broadcaster's stream context.
C24_ContextOfTheBroadcaster ==
    [][\A v \in Viewers :
            (/\ Requests(v)
             /\ broadcaster # None
             /\ broadcaster \in DOMAIN stream_contexts
             /\ LogOf(broadcaster) # <<>>) =>
                /\ gen'[v].stream_context.title = stream_contexts[broadcaster].title
                /\ gen'[v].stream_context.previous_messages =
                        stream_contexts[broadcaster].previous_messages
      ]_vars

\* the broadcaster has sent a titled content message and generate_reaction was
\* handed the default context: the default title and an empty history
C24_DefaultContextHandedOver ==
    /\ pc["v1"] = "generating"
    /\ broadcaster = "b1"
    /\ stream_contexts["b1"].title = "Hello World Stream"
    /\ stream_contexts["b1"].previous_messages = <<"this is amazing">>
    /\ gen["v1"].stream_context.title = DefaultTitle
    /\ gen["v1"].stream_context.previous_messages = <<>>

\* the generate_reaction call of v ends in this step without a text: the external call raised
GenerationFails(v) == pc[v] = "generating" /\ gen'[v].result = None

\* C25: when the external generator fails, the requesting viewer is still sent
\* a reaction with a text as its content (one of the canned fallback texts).
C25_FallbackOnGenerationFailure ==
    [][\A v \in Viewers : GenerationFails(v) =>
            /\ pc'[v] = "aisend"
            /\ pending'[v].to = v
            /\ pending'[v].msg.type = "reaction"
            /\ pending'[v].msg.content # None
      ]_vars

\* the generator failed for v1's request and v1 is back in its receive loop
\* without anything having been written to it after the stream info
C25_NothingSent ==
    /\ gen["v1"] # NoGen
    /\ gen["v1"].result = None
    /\ pc["v1"] = "receiving"
    /\ \A i \in 1..Len(received["v1"]) : received["v1"][i].type # "reaction"

\* the messages written to c that are of type t
OfType(c, t) == {i \in 1..Len(received[c]) : received[c][i].type = t}

\* the write of a generated reaction to v ends in this step
ResponseWritten(v) == pc[v] = "aisend" /\ pc'[v] # "aisend"

\* the mirror of a generated reaction, sent by the handler of v, is written in this step
MirrorWritten(v) == pc[v] = "mirrorsend" /\ pc'[v] # "mirrorsend"

\* C27: a receive_stream_content request of a viewer ends with the generated
\* reaction written to that viewer; if a broadcaster is in the slot then, the
\* same reaction is written to it as a bot_reaction marked ai_generated; no
\* viewer is written a reaction it did not ask for.
C27_GeneratedReactionRouting ==
    /\ [][\A v \in Viewers :
            /\ ResponseWritten(v) =>
                  /\ received'[v] = Append(received[v],
                          [type |-> "reaction", content |-> gen[v].result,
                           bot_info |-> gen[v].bot_info, ai_generated |-> TRUE])
                  /\ \A c \in Conns \ {v} : received'[c] = received[c]
                  /\ broadcaster # None =>
                          /\ pc'[v] = "mirrorsend"
                          /\ pending'[v].to = broadcaster
                          /\ pending'[v].msg =
                                [type |-> "bot_reaction", content |-> gen[v].result,
                                 bot_info |-> gen[v].bot_info, ai_generated |-> TRUE]
            /\ MirrorWritten(v) =>
                  /\ received'[pending[v].to] =
                          Append(received[pending[v].to],
                                 [type |-> "bot_reaction", content |-> gen[v].result,
                                  bot_info |-> gen[v].bot_info, ai_generated |-> TRUE])
                  /\ \A c \in Conns \ {pending[v].to} : received'[c] = received[c]
         ]_vars
    /\ [](\A v \in Viewers :
            /\ Cardinality(OfType(v, "reaction")) <= nrecv[v]
            /\ OfType(v, "bot_reaction") = {})
    /\ (pc["v1"] = "generating") ~> (Cardinality(OfType("v1", "reaction")) = nrecv["v1"])
    /\ (pc["v1"] = "mirrorsend") ~> (pc["v1"] # "mirrorsend")

\* v1 has been written the reaction generated for its request and b1 its mirror,
\* while v2, connected and delivered the content message, has been written no reaction
C27_Witness ==
    /\ OfType("v1", "reaction") # {}
    /\ \E i \in OfType("b1", "bot_reaction") : received["b1"][i].ai_generated
    /\ "v2" \in Range(bot_viewers)
    /\ OfType("v2", "stream_info") # {}
    /\ OfType("v2", "reaction") = {}

\* the handler of v takes a reaction of its client in this step
HearsReaction(v) == Hears(v) /\ ParseBotReaction(heard'[v]).type = "reaction"

\* the forward of a reaction of v is written in this step
ForwardWritten(v) == pc[v] = "reactsend" /\ pc'[v] # "reactsend"

\* the contents of the bot_reaction messages written to b, in the order they were written
RECURSIVE ForwardedFrom(_, _)
ForwardedFrom(b, i) ==
    IF i > Len(received[b]) THEN <<>>
    ELSE IF received[b][i].type = "bot_reaction"
    THEN <<received[b][i].content>> \o ForwardedFrom(b, i + 1)
    ELSE ForwardedFrom(b, i + 1)

\* C28: a reaction of a viewer, taken while a broadcaster is in the slot, is
\* sent to that broadcaster as a bot_reaction with the viewer's content and
\* profile, and the send ends; what is written is the forward of the last
\* reaction taken from that viewer, so the reactions of a viewer are written
\* in the order they were taken; no viewer is ever written a reaction.
C28_ReactionForwarding ==
    /\ [][\A v \in Viewers :
            /\ (HearsReaction(v) /\ broadcaster # None) =>
                  /\ pc'[v] = "reactsend"
                  /\ pending'[v].to = broadcaster
                  /\ pending'[v].msg =
                        [type |-> "bot_reaction",
                         content |-> ParseBotReaction(heard'[v]).content,
                         bot_info |-> ParseBotReaction(heard'[v]).bot_info,
                         ai_generated |-> FALSE]
                  /\ received' = received
            /\ ForwardWritten(v) =>
                  /\ received'[pending[v].to] =
                        Append(received[pending[v].to],
                               [type |-> "bot_reaction",
                                content |-> ParseBotReaction(heard[v]).content,
                                bot_info |-> ParseBotReaction(heard[v]).bot_info,
                                ai_generated |-> FALSE])
                  /\ \A c \in Conns \ {pending[v].to} : received'[c] = received[c]
         ]_vars
    /\ [](\A v \in Viewers : OfType(v, "bot_reaction") = {} /\ OfType(v, "reaction") = {})
    /\ (pc["v1"] = "reactsend") ~> (pc["v1"] # "reactsend")

\* b1 has been written two different reactions of v1, in the order v1 sent them,
\* while v2 is connected
C28_Witness ==
    /\ nrecv["v1"] = 2
    /\ heard["v1"] = SecondReactionJson
    /\ ForwardedFrom("b1", 1) = <<"so happy", "great stream">>
    /\ "v2" \in Range(bot_viewers)

\* the handler of v takes a heartbeat of its client in this step
HearsHeartbeat(v) == Hears(v) /\ ParseBotReaction(heard'[v]).type = "heartbeat"

\* the profile p with the entries of d written over it
Merged(p, d, q) ==
    /\ DOMAIN q = (DOMAIN p) \cup (DOMAIN d)
    /\ \A k \in DOMAIN d : q[k] = d[k]
    /\ \A k \in (DOMAIN p) \ (DOMAIN d) : q[k] = p[k]

\* C29: a heartbeat of a viewer that has a profile writes the entries of its
\* bot_info over that profile and keeps the other entries; the profiles of the
\* other viewers, the viewer list, the slot and the stream contexts stay as
\* they are and nothing is sent; for a connection without a profile nothing
\* changes at all.
C29_HeartbeatMergesProfile ==
    [][\A v \in Viewers : HearsHeartbeat(v) =>
            /\ DOMAIN bot_info' = DOMAIN bot_info
            /\ \A w \in (DOMAIN bot_info) \ {v} : bot_info'[w] = bot_info[w]
            /\ v \in DOMAIN bot_info =>
                    Merged(bot_info[v], ParseBotReaction(heard'[v]).bot_info, bot_info'[v])
            /\ v \notin DOMAIN bot_info => bot_info' = bot_info
            /\ bot_viewers' = bot_viewers
            /\ broadcaster' = broadcaster
            /\ stream_contexts' = stream_contexts
            /\ pending' = pending
            /\ received' = received
            /\ fan' = fan
            /\ pc' = pc
      ]_vars

\* the heartbeat of v1 has added its personality to the profile made when v1 connected
C29_Witness ==
    /\ heard["v1"] = HeartbeatJson
    /\ "v1" \in DOMAIN bot_info
    /\ bot_info["v1"] = [connected_at |-> 1, personality_type |-> "curious"]

\* the heartbeat of v1 was taken after v1 had been evicted
C29_UnknownConnection ==
    /\ heard["v1"] = HeartbeatJson
    /\ "v1" \notin DOMAIN bot_info
    /\ pc["v1"] = "receiving"

\* C30: every text of the broadcaster that is not a get_viewers command, a
\* message with content and some other command included, is appended to the
\* history of the broadcaster's stream and fanned out to the viewers in the list.
C30_OnlyGetViewersIsACommand ==
    [][\A b \in Broadcasters :
            LET message_data == ParseStreamContent(Head(inbox[b]))
            IN  (Receives(b) /\ message_data.command # "get_viewers") =>
                    /\ HistoryOf(b)' = LastKeep(Append(HistoryOf(b), message_data.content))
                    /\ LogOf(b)' = Append(LogOf(b), message_data.content)
                    /\ bot_viewers # <<>> =>
                            /\ pc'[b] = "broadcasting"
                            /\ fan'[b].at_start = bot_viewers
                            /\ fan'[b].msg.content = message_data.content
      ]_vars

\* the content message with the command mute was taken with a viewer connected
\* and left neither a trace in the history nor a fan-out
C30_ContentDropped ==
    /\ nrecv["b1"] = 1
    /\ pc["b1"] = "receiving"
    /\ "b1" \in DOMAIN stream_contexts
    /\ HistoryOf("b1") = <<>>
    /\ fan["b1"] = NoFan
    /\ bot_viewers # <<>>
    /\ inbox["b1"] = <<>>

Core(ctx) ==
    <<ctx.title, ctx.topics, ctx.mood, ctx.previous_messages, ctx.viewers,
      ctx.message_count, ctx.start_time>>

\* the stores that one operation on the stream A can leave behind
AfterAnOperationOn(A) ==
    {get_context(stream_contexts, A, now), reset_context(stream_contexts, A, now)}
        \cup {update_title(stream_contexts, title, A, now) : title \in Titles}
        \cup {add_message(stream_contexts, message, A, now) : message \in Range(MsgNames)}
        \cup {update_viewers(stream_contexts, count, A, now) : count \in 0..MaxViewerArg}
        \cup {analyze_mood(stream_contexts, content, A, now) : content \in MoodContents}

\* C38: an operation of the store on one stream leaves every other stream in
\* the store, with its title, topics, mood, history, viewers, message count
\* and start time as they were.
C38_StreamIsolation ==
    \A A \in IsoIds : \A B \in (DOMAIN stream_contexts) \ {A} :
        \A after \in AfterAnOperationOn(A) :
            /\ B \in DOMAIN after
            /\ Core(after[B]) = Core(stream_contexts[B])

\* two streams that operations have written to, each with its own title, count and history
C38_Witness ==
    /\ "b1" \in DOMAIN stream_contexts
    /\ stream_contexts["b1"].title = "New Episode"
    /\ stream_contexts["b1"].message_count = 0
    /\ stream_contexts["default"].title = DefaultTitle
    /\ stream_contexts["default"].message_count = 1
    /\ stream_contexts["default"].viewers = MaxViewerArg
    /\ stream_contexts["b1"].viewers = 0
    /\ stream_contexts["default"].mood = "positive"
    /\ stream_contexts["b1"].mood = "neutral"

(***************************************************************************)
(* Claims about errors, roles and bookkeeping.                             *)
(***************************************************************************)
\* process_broadcaster_message raises for the text b's handler takes in this step
ProcessingFails(b) == Receives(b) /\ ProcessRaises(ParseStreamContent(Head(inbox[b])))

\* C31: an exception raised while a text of the broadcaster is received or
\* processed disconnects the broadcaster: the slot is emptied and its handler
\* ends; the viewers stay in the list with their profiles.
C31_BroadcasterErrorDisconnects ==
    [][\A b \in Broadcasters : (Ends(b) \/ ProcessingFails(b)) =>
            /\ broadcaster' = None
            /\ pc'[b] = "closed"
            /\ bot_viewers' = bot_viewers
            /\ bot_info' = bot_info
      ]_vars

\* the half of C31 about receive_text raising
C31_ReceiveErrorDisconnects ==
    [][\A b \in Broadcasters : Ends(b) =>
            /\ broadcaster' = None
            /\ pc'[b] = "closed"
            /\ bot_viewers' = bot_viewers
            /\ bot_info' = bot_info
      ]_vars

\* processing raised for the message of b1, and b1 is in the slot and receiving,
\* its stream left with the number for a title and an empty history
C31_StillConnected ==
    /\ broadcaster = "b1"
    /\ pc["b1"] = "receiving"
    /\ nrecv["b1"] = 1
    /\ stream_contexts["b1"].title = NumberTitle
    /\ HistoryOf("b1") = <<>>
    /\ bot_viewers # <<>>

\* C32: the connections that have a profile are the connections in the viewer
\* list, in every reachable state, and no connection is in the list twice.
C32_ProfilesAreViewers ==
    /\ DOMAIN bot_info = Range(bot_viewers)
    /\ Cardinality(Range(bot_viewers)) = Len(bot_viewers)

\* v1 was evicted by a failed send of a fan-out while v2, whose heartbeat was
\* merged, is the one viewer left
C32_Witness ==
    /\ "v1" \in DOMAIN fan["b1"].tasks
    /\ fan["b1"].tasks["v1"] = "failed"
    /\ bot_viewers = <<"v2">>
    /\ heard["v2"] = HeartbeatJson
    /\ "personality_type" \in DOMAIN bot_info["v2"]

\* the handler of b starts a fan-out in this step
StartsFanOut(b) == Receives(b) /\ pc'[b] = "broadcasting"

\* C34: a fan-out of content is started only by the handler of the connection
\* that is in the broadcaster slot; a connection removed from the slot starts
\* none, and two connections never have a fan-out in progress at once.
C34_FanOutOnlyFromTheSlot ==
    /\ [][\A b \in Broadcasters : StartsFanOut(b) => broadcaster = b]_vars
    /\ [](\A b1 \in Broadcasters, b2 \in Broadcasters :
            (pc[b1] = "broadcasting" /\ pc[b2] = "broadcasting") => b1 = b2)

\* b1, evicted from the slot by a failed send, and b2, which took the slot
\* after that, both have a fan-out in progress
C34_TwoFanOuts ==
    /\ pc["b1"] = "broadcasting"
    /\ pc["b2"] = "broadcasting"
    /\ broadcaster = "b2"

\* C35: when the handler of a broadcaster connection ends while the slot holds
\* another connection, the slot keeps that connection.
C35_TeardownKeepsOthers ==
    [][\A b \in Broadcasters :
            (Ends(b) /\ broadcaster # None /\ broadcaster # b) =>
                broadcaster' = broadcaster]_vars

\* C36: a text taken from a viewer connection that is no longer in the viewer
\* list (it was evicted when a send to it failed) starts no send to the
\* broadcaster and leaves the slot, the viewer list and the profiles as they are.
C36_EvictedViewerIsMute ==
    [][\A v \in Viewers : (Hears(v) /\ v \notin Range(bot_viewers)) =>
            /\ pending' = pending
            /\ pc' = pc
            /\ broadcaster' = broadcaster
            /\ bot_viewers' = bot_viewers
            /\ bot_info' = bot_info
      ]_vars

\* the reaction of v1, taken after v1 had been evicted, is being sent to the broadcaster
C36_ForwardedAfterEviction ==
    /\ pc["v1"] = "reactsend"
    /\ "v1" \notin Range(bot_viewers)
    /\ pending["v1"].to = broadcaster
    /\ pending["v1"].msg.type = "bot_reaction"

\* the join or leave of v has been processed in this step: its notice was sent
\* and update_viewers was called
NoticeProcessed(v) == pc[v] \in {"joinsend", "leavesend"} /\ pc'[v] # pc[v]

\* C37: once a join or a leave of a viewer has been processed with a
\* broadcaster in the slot, the viewers field of the stream context of that
\* broadcaster is the length of the viewer list.
C37_ViewerCountFollowsRegistry ==
    [][\A v \in Viewers :
            (NoticeProcessed(v) /\ broadcaster' # None
                /\ broadcaster' \in DOMAIN stream_contexts') =>
                stream_contexts'[broadcaster'].viewers = get_bot_count(bot_viewers')
      ]_vars

\* v1 has joined under b1 and its join was processed: the default context
\* counts one viewer, the context of b1's stream none
C37_CountWentToDefault ==
    /\ broadcaster = "b1"
    /\ pc["v1"] = "receiving"
    /\ bot_viewers = <<"v1">>
    /\ stream_contexts["default"].viewers = 1
    /\ stream_contexts["b1"].viewers = 0

\* the fields of a context that the messages of the broadcaster write
Gated(ctx) ==
    <<ctx.title, ctx.topics, ctx.mood, ctx.previous_messages, ctx.message_count>>

\* the handler of v takes a text or goes on processing one in this step
HandlesViewerMessage(v) ==
    \/ Hears(v)
    \/ pc[v] \in {"reactsend", "generating", "aisend", "mirrorsend"} /\ pc'[v] # pc[v]

\* C39: whatever a viewer sends (a heartbeat, a reaction, a request for a
\* generated reaction, a message of an unknown type, a text that is no JSON),
\* handling it leaves the title, topics, mood, history and message count of
\* every stream context as they are, starts no fan-out and writes to no other viewer.
C39_ViewerTrafficIsGated ==
    [][\A v \in Viewers : HandlesViewerMessage(v) =>
            /\ DOMAIN stream_contexts' = DOMAIN stream_contexts
            /\ \A sid \in DOMAIN stream_contexts :
                    Gated(stream_contexts'[sid]) = Gated(stream_contexts[sid])
            /\ fan' = fan
            /\ \A w \in Viewers \ {v} : received'[w] = received[w]
      ]_vars

\* v1's request was answered with a generated reaction while b1's stream has a
\* title and a history and v2, connected, was delivered the content message
C39_Witness ==
    /\ gen["v1"] # NoGen
    /\ gen["v1"].result \in GeneratedTexts
    /\ pc["v1"] = "receiving"
    /\ "b1" \in DOMAIN stream_contexts
    /\ HistoryOf("b1") = <<"this is amazing">>
    /\ "v2" \in Range(bot_viewers)
    /\ OfType("v2", "stream_content") # {}
    /\ OfType("v2", "reaction") = {}
\* the fields of a context the two stores are compared on
Compared(ctx) ==
    <<ctx.topics, ctx.mood, ctx.previous_messages, ctx.viewers, ctx.message_count>>

\* C40: after every sequence of get_context, update_title, add_message,
\* update_viewers, analyze_mood and reset_context calls made with the same
\* arguments on the StreamContextManager and on the StreamContextService, the
\* two hold the same stream ids, and for every stream id the same topics, mood,
\* history, viewers and message count; their titles differ only where both are
\* the default title of their store.
C40_ManagerMatchesService ==
    /\ DOMAIN manager_contexts = DOMAIN stream_contexts
    /\ \A sid \in DOMAIN stream_contexts :
          /\ Compared(manager_contexts[sid]) = Compared(stream_contexts[sid])
          /\ \/ manager_contexts[sid].title = stream_contexts[sid].title
             \/ /\ manager_contexts[sid].title = ManagerDefaultTitle
                /\ stream_contexts[sid].title = DefaultTitle

\* both stores have cut the history of a stream with topics, a mood and a viewer,
\* while the default stream still carries the two default titles
C40_Witness ==
    /\ "b1" \in DOMAIN manager_contexts
    /\ manager_contexts["b1"].message_count = HistoryKeep + 2
    /\ Len(manager_contexts["b1"].previous_messages) = ManagerHistoryKeep
    /\ Cardinality(manager_contexts["b1"].topics) > 2
    /\ manager_contexts["b1"].mood = "negative"
    /\ manager_contexts["b1"].viewers = 1
    /\ manager_contexts["default"].title # stream_contexts["default"].title

====
